---- MODULE Spec2Model ----
(***************************************************************************)
(* Model of the real-time GTO simulation engine of mission-ignite-backend: *)
(*   - PressureEngine       (gto-simulation/pressure/pressure.engine.ts)   *)
(*   - VoiceAnalysisService (gto-simulation/voice/voice-analysis.service)  *)
(*   - GtoSimulationGateway (gto-simulation gateway, one client socket)    *)
(*                                                                         *)
(* Times are in milliseconds.  Math.random() draws are modelled in        *)
(* thousandths (an integer r in 0..999 stands for the draw r/1000), and    *)
(* probabilities likewise (420 stands for 0.42).                           *)
(***************************************************************************)
EXTENDS Integers, Sequences, FiniteSets, TLC

VARIABLES
    states,         \* PressureEngine.states : sessionId -> PressureState
    sessionFrames,  \* VoiceAnalysisService.sessionFrames : sessionId -> frames
    baselines,      \* VoiceAnalysisService.baselines : sessionId -> baseline
    timers,         \* GtoSimulationGateway.timers with each interval's closure (remaining, durationSec)
    client,         \* the SimSocket of the one client connection
    db,             \* the gTOTestSession table : sessionId -> row
    agentLogs,      \* the agentLog table
    emitted,        \* the events the handlers have emitted to the client, in order
    countdownEmitted, \* the events the countdown callbacks have emitted, in order
    pending,        \* operations in flight: awaited store calls and setTimeout callbacks
    now,            \* Date.now()
    requests,       \* how many frame and end messages have arrived and how often time has passed
    lastCall,       \* the last call made on the PressureEngine API, with its result
    hist            \* what has happened to the engine session so far

gatewayVars == <<sessionFrames, baselines, timers, client, db, agentLogs, emitted,
                 countdownEmitted, pending, now, requests>>
vars == <<states, sessionFrames, baselines, timers, client, db, agentLogs, emitted,
          countdownEmitted, pending, now, requests, lastCall, hist>>

\* ---------------------------------------------------------------------------
\* Bounds of the model
\* ---------------------------------------------------------------------------
MaxInterruptions == 6
MaxCalmInterruptions == 16
MaxStepBacks == 4
MaxElapsed == 230000
MaxSessions == 1
MaxFrames == 2
MaxEndRequests == 2
MaxTicks == 3
MaxVoiceFrames == 15
MaxClockSeconds == 25
MaxClockSessions == 2
MaxCountdownSeconds == 125
MaxStreamFrames == 3
MaxLongFrames == 6

\* ---------------------------------------------------------------------------
\* Helpers
\* ---------------------------------------------------------------------------
Max(a, b) == IF a >= b THEN a ELSE b
Min(a, b) == IF a <= b THEN a ELSE b

\* a value that is null or undefined
Null == [absent |-> "null"]
Undefined == [absent |-> "undefined"]

\* Math.floor(Math.random() * n) for a draw of r thousandths
RandomIndex(r, n) == (r * n) \div 1000

\* ---------------------------------------------------------------------------
\* PressureEngine
\* ---------------------------------------------------------------------------
GRACE_MS == 15000
MAX_LEVEL == 5

\* INTERRUPTIONS: per level, the categories with their type and number of templates.
\* A template text is identified by <<level, category index, template index>>.
INTERRUPTIONS ==
    [l \in 1..5 |->
        CASE l = 1 -> << [type |-> "CHALLENGE", templates |-> 3] >>
          [] l = 2 -> << [type |-> "DEMAND_CLARITY", templates |-> 4],
                         [type |-> "REDIRECT", templates |-> 2] >>
          [] l = 3 -> << [type |-> "DISMISS", templates |-> 4],
                         [type |-> "PRESSURE_TEST", templates |-> 2] >>
          [] l = 4 -> << [type |-> "PRESSURE_TEST", templates |-> 4],
                         [type |-> "DISMISS", templates |-> 2] >>
          [] l = 5 -> << [type |-> "PRESSURE_TEST", templates |-> 4] >>]

NoText == <<>>

InitialPressureState ==
    [currentLevel |-> 1,
     interruptionCount |-> 0,
     challengeCount |-> 0,
     lastInterruptionAt |-> 0,
     candidateStepBacks |-> 0,
     escalationTriggers |-> <<>>]

\* initSession(sessionId)
PressureInitSession(sts, sessionId) ==
    [s \in DOMAIN sts \cup {sessionId} |->
        IF s = sessionId THEN InitialPressureState ELSE sts[s]]

\* endSession(sessionId): the state returned (Undefined when there is none) and the map left
PressureEndSession(sts, sessionId) ==
    [returned |-> IF sessionId \in DOMAIN sts THEN sts[sessionId] ELSE Undefined,
     states |-> [s \in DOMAIN sts \ {sessionId} |-> sts[s]]]

\* the decision of no interruption that always reports level 1
NoInterrupt_LevelOne(level) ==
    [shouldInterrupt |-> FALSE,
     interruptionType |-> "NONE",
     text |-> NoText,
     pressureLevel |-> 1,
     waitBeforeMs |-> 0]

\* noInterrupt(level)
NoInterrupt(level) ==
    [shouldInterrupt |-> FALSE,
     interruptionType |-> "NONE",
     text |-> NoText,
     pressureLevel |-> level,
     waitBeforeMs |-> 0]

\* the gap without its 8000 ms floor
MinGapMs_NoFloor(level) == 25000 - level * 4000

MinGapMs(level) == Max(8000, 25000 - level * 4000)

MinWords(level) == Max(10, 40 - level * 6)

\* probability in thousandths
Probability(level, confidenceScore) ==
    300 + level * 120
        + (IF confidenceScore > 70 THEN 150 ELSE 0)
        + (IF confidenceScore > 85 THEN 150 ELSE 0)

\* the timing rules left out
TimingAllows_Omitted(st, elapsedMs) == TRUE

\* the timing rules: grace period, then minimum gap since the last interruption
TimingAllows(st, elapsedMs) ==
    /\ ~(elapsedMs < GRACE_MS)
    /\ ~(elapsedMs - st.lastInterruptionAt < MinGapMs(st.currentLevel))

\* the word rule off by one
WordsAllow_OffByOne(st, words) == ~(words + 1 < MinWords(st.currentLevel))

\* the word rule
WordsAllow(st, words) == ~(words < MinWords(st.currentLevel))

\* the probability rule: Math.random() > probability returns no interrupt
DrawAllows(st, confidenceScore, draw) ==
    ~(draw > Probability(st.currentLevel, confidenceScore))

\* escalation without the cap at MAX_LEVEL
EvaluateEscalation_NoCap(st, metrics) ==
    LET s1 == IF st.interruptionCount % 3 = 0 /\ st.interruptionCount > 0
              THEN [st EXCEPT !.currentLevel = @ + 1] ELSE st
    IN IF metrics.confidenceScore > 80 /\ s1.interruptionCount > 2
       THEN [s1 EXCEPT !.currentLevel = @ + 1] ELSE s1

\* escalation on every 2nd interruption instead of every 3rd
EvaluateEscalation_Every2(st, metrics) ==
    IF st.currentLevel >= MAX_LEVEL THEN st
    ELSE IF st.interruptionCount % 2 = 0 /\ st.interruptionCount > 0
         THEN [st EXCEPT !.currentLevel = Min(MAX_LEVEL, @ + 1)] ELSE st

\* escalation in which the confidence raise is skipped when the every-3rd raise fired
EvaluateEscalation_Exclusive(st, metrics) ==
    IF st.currentLevel >= MAX_LEVEL THEN st
    ELSE IF st.interruptionCount % 3 = 0 /\ st.interruptionCount > 0
         THEN [st EXCEPT !.currentLevel = Min(MAX_LEVEL, @ + 1)]
         ELSE IF metrics.confidenceScore > 80 /\ st.interruptionCount > 2
              THEN [st EXCEPT !.currentLevel = Min(MAX_LEVEL, @ + 1)]
              ELSE st

EvaluateEscalation(st, metrics) ==
    IF st.currentLevel >= MAX_LEVEL THEN st
    ELSE
        LET s1 == IF st.interruptionCount % 3 = 0 /\ st.interruptionCount > 0
                  THEN LET l == Min(MAX_LEVEL, st.currentLevel + 1)
                       IN [st EXCEPT !.currentLevel = l,
                                     !.escalationTriggers =
                                         Append(@, <<"interruptions", l, st.interruptionCount>>)]
                  ELSE st
            s2 == IF metrics.confidenceScore > 80 /\ s1.interruptionCount > 2
                  THEN LET l == Min(MAX_LEVEL, s1.currentLevel + 1)
                       IN [s1 EXCEPT !.currentLevel = l,
                                     !.escalationTriggers = Append(@, <<"confident", l>>)]
                  ELSE s1
        IN s2

\* the delay with the two branches exchanged
WaitBeforeMs_Exchanged(rnd) == IF rnd.imm < 300 THEN RandomIndex(rnd.delay, 2000) ELSE 0

\* waitBeforeMs: Math.random() < 0.3 ? 0 : Math.floor(Math.random() * 2000)
WaitBeforeMs(rnd) == IF rnd.imm < 300 THEN 0 ELSE RandomIndex(rnd.delay, 2000)

\* evaluateInterruption that initialises the state of a session it does not know
EvaluateInterruption_CreatesState(sts, sessionId, metrics, elapsedMs, words, rnd) ==
    LET known == PressureInitSession(sts, sessionId)
        st == IF sessionId \in DOMAIN sts THEN sts[sessionId] ELSE InitialPressureState
        all == IF sessionId \in DOMAIN sts THEN sts ELSE known
    IN IF ~TimingAllows(st, elapsedMs) \/ ~WordsAllow(st, words)
          \/ ~DrawAllows(st, metrics.confidenceScore, rnd.draw)
       THEN [states |-> all, decision |-> NoInterrupt(st.currentLevel)]
       ELSE
           LET level == st.currentLevel
               pool == INTERRUPTIONS[level]
               ci == RandomIndex(rnd.cat, Len(pool)) + 1
               category == pool[ci]
               ti == RandomIndex(rnd.tmpl, category.templates) + 1
               counted == [st EXCEPT !.interruptionCount = @ + 1,
                                     !.challengeCount = @ + 1,
                                     !.lastInterruptionAt = elapsedMs]
               escalated == EvaluateEscalation(counted, metrics)
           IN [states |-> [all EXCEPT ![sessionId] = escalated],
               decision |-> [shouldInterrupt |-> TRUE,
                             interruptionType |-> category.type,
                             text |-> <<level, ci, ti>>,
                             pressureLevel |-> escalated.currentLevel,
                             waitBeforeMs |-> WaitBeforeMs(rnd)]]

\* evaluateInterruption(sessionId, metrics, elapsedMs, candidateWordsSinceLastInterrupt)
\* rnd holds the Math.random() draws the call may consume, in the order of the code.
EvaluateInterruption(sts, sessionId, metrics, elapsedMs, words, rnd) ==
    IF sessionId \notin DOMAIN sts
    THEN [states |-> sts, decision |-> NoInterrupt(1)]
    ELSE
        LET st == sts[sessionId] IN
        IF ~TimingAllows(st, elapsedMs) THEN [states |-> sts, decision |-> NoInterrupt(st.currentLevel)]
        ELSE IF ~WordsAllow(st, words) THEN [states |-> sts, decision |-> NoInterrupt(st.currentLevel)]
        ELSE IF ~DrawAllows(st, metrics.confidenceScore, rnd.draw)
             THEN [states |-> sts, decision |-> NoInterrupt(st.currentLevel)]
        ELSE
            LET level == st.currentLevel
                pool == INTERRUPTIONS[level]
                ci == RandomIndex(rnd.cat, Len(pool)) + 1
                category == pool[ci]
                ti == RandomIndex(rnd.tmpl, category.templates) + 1
                text == <<level, ci, ti>>
                counted == [st EXCEPT !.interruptionCount = @ + 1,
                                      !.challengeCount = @ + 1,
                                      !.lastInterruptionAt = elapsedMs]
                escalated == EvaluateEscalation(counted, metrics)
            IN [states |-> [sts EXCEPT ![sessionId] = escalated],
                decision |-> [shouldInterrupt |-> TRUE,
                              interruptionType |-> category.type,
                              text |-> text,
                              pressureLevel |-> escalated.currentLevel,
                              waitBeforeMs |-> WaitBeforeMs(rnd)]]

\* recordStepBack whose relief has no floor at level 2
RecordStepBack_NoFloor(sts, sessionId) ==
    IF sessionId \notin DOMAIN sts THEN sts
    ELSE [sts EXCEPT ![sessionId] =
            [@ EXCEPT !.candidateStepBacks = @ + 1,
                      !.currentLevel = IF sts[sessionId].candidateStepBacks + 1 >= 3
                                          /\ @ > 1
                                       THEN @ - 1 ELSE @]]

\* recordStepBack whose relief starts after the 3rd step-back instead of with it
RecordStepBack_After3rd(sts, sessionId) ==
    IF sessionId \notin DOMAIN sts THEN sts
    ELSE [sts EXCEPT ![sessionId] =
            [@ EXCEPT !.candidateStepBacks = @ + 1,
                      !.currentLevel = IF sts[sessionId].candidateStepBacks + 1 > 3
                                          /\ @ > 2
                                       THEN Max(2, @ - 1) ELSE @]]

\* recordStepBack(sessionId)
RecordStepBack(sts, sessionId) ==
    IF sessionId \notin DOMAIN sts THEN sts
    ELSE
        LET st == sts[sessionId]
            n == st.candidateStepBacks + 1
            logged == [st EXCEPT !.candidateStepBacks = n,
                                 !.escalationTriggers = Append(@, <<"stepback", n>>)]
        IN [sts EXCEPT ![sessionId] =
                IF n >= 3 /\ logged.currentLevel > 2
                THEN [logged EXCEPT !.currentLevel = Max(2, logged.currentLevel - 1)]
                ELSE logged]

\* ---------------------------------------------------------------------------
\* VoiceAnalysisService
\*
\* A VoiceFrame is a record [timestamp, rmsVolume, pitchHz, pitchVariance,
\* speechRate, pauseDurationMs, fillerWordCount, wordCount, transcript]; rmsVolume
\* is in tenths (8 stands for 0.8).  Averages are kept as exact fractions
\* (sum over count) and every score is rounded only where the code rounds it.
\* ---------------------------------------------------------------------------
RECURSIVE SeqSum(_)
SeqSum(q) == IF q = <<>> THEN 0 ELSE Head(q) + SeqSum(Tail(q))

\* arr.map(f) for the field values, arr.filter(p)
MapSeq(q, F(_)) == [i \in 1..Len(q) |-> F(q[i])]
FilterSeq(q, P(_)) == SelectSeq(q, P)

\* frames.slice(-k)
LastN(q, k) == IF Len(q) <= k THEN q ELSE SubSeq(q, Len(q) - k + 1, Len(q))

\* Math.round(n / d) for d > 0: floor(n/d + 1/2)
RoundDiv(n, d) == (2 * n + d) \div (2 * d)

\* the smallest integer >= n / d for d > 0
CeilDiv(n, d) == -((-n) \div d)

Clamp(lo, hi, x) == Max(lo, Min(hi, x))

WINDOW == 10
BASELINE_MS == 30000

\* initSession(sessionId)
VoiceInitSession(frs, bls, sessionId) ==
    [sessionFrames |-> [s \in DOMAIN frs \cup {sessionId} |->
                            IF s = sessionId THEN <<>> ELSE frs[s]],
     baselines |-> [s \in DOMAIN bls \ {sessionId} |-> bls[s]]]

\* endSession(sessionId)
VoiceEndSession(frs, bls, sessionId) ==
    [sessionFrames |-> [s \in DOMAIN frs \ {sessionId} |-> frs[s]],
     baselines |-> [s \in DOMAIN bls \ {sessionId} |-> bls[s]]]

\* calibrateBaseline that averages the volume where it should average the pitch
CalibrateBaseline_PitchFromVolume(bls, sessionId, frames) ==
    LET InBaseline(f) == f.timestamp <= BASELINE_MS
        baselineFrames == FilterSeq(frames, InBaseline)
        Volume(f) == f.rmsVolume
        Rate(f) == f.speechRate
    IN IF Len(baselineFrames) < 5 THEN bls
       ELSE [s \in DOMAIN bls \cup {sessionId} |->
                IF s = sessionId
                THEN [sumPitch |-> SeqSum(MapSeq(baselineFrames, Volume)),
                      sumVolume |-> SeqSum(MapSeq(baselineFrames, Volume)),
                      sumRate |-> SeqSum(MapSeq(baselineFrames, Rate)),
                      count |-> Len(baselineFrames)]
                ELSE bls[s]]

\* calibrateBaseline(sessionId, frames): the averages are sum / count
CalibrateBaseline(bls, sessionId, frames) ==
    LET InBaseline(f) == f.timestamp <= BASELINE_MS
        baselineFrames == FilterSeq(frames, InBaseline)
        Pitch(f) == f.pitchHz
        Volume(f) == f.rmsVolume
        Rate(f) == f.speechRate
    IN IF Len(baselineFrames) < 5 THEN bls
       ELSE [s \in DOMAIN bls \cup {sessionId} |->
                IF s = sessionId
                THEN [sumPitch |-> SeqSum(MapSeq(baselineFrames, Pitch)),
                      sumVolume |-> SeqSum(MapSeq(baselineFrames, Volume)),
                      sumRate |-> SeqSum(MapSeq(baselineFrames, Rate)),
                      count |-> Len(baselineFrames)]
                ELSE bls[s]]

\* frame[field] > limit and frame[field] < limit as JavaScript computes them: a
\* field the message lacks reads as undefined, and every comparison of undefined
\* with a number is false
Exceeds(frame, field, limit) == field \in DOMAIN frame /\ frame[field] > limit
Below(frame, field, limit) == field \in DOMAIN frame /\ frame[field] < limit

\* the truthiness of frame.transcript, and the text or "" for none
HasTranscript(frame) == "transcript" \in DOMAIN frame /\ frame.transcript # ""
TranscriptOf(frame) == IF HasTranscript(frame) THEN frame.transcript ELSE ""

\* the flag with the 60 of the volume-drop rule in place of its own 40
IdeaAbandonment_VolumeOver60(lastFrame, volNum, volDen) ==
    /\ Exceeds(lastFrame, "pauseDurationMs", 3000)
    /\ Below(lastFrame, "wordCount", 3)
    /\ volNum > 60 * volDen

\* the flag without its volume condition
IdeaAbandonment_AnyVolume(lastFrame, volNum, volDen) ==
    /\ Exceeds(lastFrame, "pauseDurationMs", 3000)
    /\ Below(lastFrame, "wordCount", 3)

\* ideaAbandonment of computeMetrics; volumeDrop is volNum / volDen
IdeaAbandonment(lastFrame, volNum, volDen) ==
    /\ Exceeds(lastFrame, "pauseDurationMs", 3000)
    /\ Below(lastFrame, "wordCount", 3)
    /\ volNum > 40 * volDen

\* computeMetrics(sessionId, frames); frames is never empty when it is called.
\* nowMs is Date.now(), used when the last frame's timestamp is 0.
ComputeMetrics(bls, sessionId, frames, nowMs) ==
    LET recent == LastN(frames, WINDOW)
        n == Len(recent)
        hasBaseline == sessionId \in DOMAIN bls
        Pitch(f) == f.pitchHz
        Volume(f) == f.rmsVolume
        Rate(f) == f.speechRate
        PitchVar(f) == f.pitchVariance
        Fillers(f) == f.fillerWordCount
        LongPause(f) == Exceeds(f, "pauseDurationMs", 1500)
        sumPitch == SeqSum(MapSeq(recent, Pitch))
        sumVolume == SeqSum(MapSeq(recent, Volume))
        sumRate == SeqSum(MapSeq(recent, Rate))
        sumPitchVar == SeqSum(MapSeq(recent, PitchVar))
        totalPauses == Len(FilterSeq(recent, LongPause))
        totalFillers == SeqSum(MapSeq(recent, Fillers))
        \* voiceTremor = min(100, avgPitchVar * 5), as tremorNum / n
        tremorNum == Min(100 * n, 5 * sumPitchVar)
        fillerScore == Min(50, totalFillers * 10)
        pauseScore == Min(50, totalPauses * 15)
        speechHesitation == Min(100, fillerScore + pauseScore)
        \* toneDrop = clamp(0, 100, 3 * 100 * (base - avg) / base), as toneNum / toneDen
        usePitch == hasBaseline /\ bls[sessionId].sumPitch > 0
        toneBase == IF usePitch THEN bls[sessionId].sumPitch ELSE 1
        toneDen == toneBase * n
        toneNum == IF usePitch
                   THEN Clamp(0, 100 * toneDen,
                              300 * (bls[sessionId].sumPitch * n
                                        - sumPitch * bls[sessionId].count))
                   ELSE 0
        useVolume == hasBaseline /\ bls[sessionId].sumVolume > 0
        volBase == IF useVolume THEN bls[sessionId].sumVolume ELSE 1
        volDen == volBase * n
        volNum == IF useVolume
                  THEN Clamp(0, 100 * volDen,
                             300 * (bls[sessionId].sumVolume * n
                                       - sumVolume * bls[sessionId].count))
                  ELSE 0
        lastFrame == recent[n]
        ideaAbandonment == IdeaAbandonment(lastFrame, volNum, volDen)
        \* penalties: tremor * 0.2 + hesitation * 0.25 + toneDrop * 0.15 + volumeDrop * 0.2,
        \* summed exactly as whole + fracNum / fracDen
        d1 == 20 * n
        a1 == 4 * tremorNum + 5 * speechHesitation * n
        d2 == 20 * toneDen
        a2 == 3 * toneNum
        d3 == 5 * volDen
        a3 == volNum
        fracDen == d1 * toneBase * volBase
        fracNum == (a1 % d1) * (fracDen \div d1) + (a2 % d2) * (fracDen \div d2)
                      + (a3 % d3) * (fracDen \div d3)
        whole == (a1 \div d1) + (a2 \div d2) + (a3 \div d3)
        abandonPenalty == IF ideaAbandonment THEN 20 ELSE 0
        \* Math.round(100 - penalties) = 100 - whole - ceil(frac - 1/2)
        rounded == 100 - abandonPenalty - whole - CeilDiv(2 * fracNum - fracDen, 2 * fracDen)
    IN [timestamp |-> IF lastFrame.timestamp = 0 THEN nowMs ELSE lastFrame.timestamp,
        voiceTremor |-> RoundDiv(tremorNum, n),
        speechHesitation |-> speechHesitation,
        toneDrop |-> RoundDiv(toneNum, toneDen),
        volumeDrop |-> RoundDiv(volNum, volDen),
        ideaAbandonment |-> ideaAbandonment,
        confidenceScore |-> Clamp(0, 100, rounded),
        rawValues |-> [avgPitch |-> RoundDiv(sumPitch, n),
                       avgVolume |-> RoundDiv(100 * sumVolume, n),
                       avgSpeechRate |-> RoundDiv(sumRate, n),
                       totalPauses |-> totalPauses,
                       totalFillers |-> totalFillers]]

\* processFrame(sessionId, frame)
ProcessFrame(frs, bls, sessionId, frame, nowMs) ==
    LET frames == Append(IF sessionId \in DOMAIN frs THEN frs[sessionId] ELSE <<>>, frame)
        frs2 == [s \in DOMAIN frs \cup {sessionId} |->
                    IF s = sessionId THEN frames ELSE frs[s]]
        bls2 == IF sessionId \notin DOMAIN bls /\ frame.timestamp > BASELINE_MS
                   /\ Len(frames) > 10
                THEN CalibrateBaseline(bls, sessionId, frames)
                ELSE bls
    IN [sessionFrames |-> frs2,
        baselines |-> bls2,
        metrics |-> ComputeMetrics(bls2, sessionId, frames, nowMs)]

\* getRecentTranscript(sessionId, n): the non-empty transcripts of the last n frames
GetRecentTranscript(frs, sessionId, k) ==
    LET frames == IF sessionId \in DOMAIN frs THEN frs[sessionId] ELSE <<>>
        Text(f) == TranscriptOf(f)
        NonEmpty(t) == t # ""
    IN FilterSeq(MapSeq(LastN(frames, k), Text), NonEmpty)

NoMetrics == Null

\* detectStepBack with the volume-drop rule tried before the confidence rule
DetectStepBack_VolumeFirst(frs, sessionId, currentMetrics, previousMetrics, aiChallenge) ==
    IF previousMetrics = NoMetrics THEN Null
    ELSE
        LET confidenceDrop == previousMetrics.confidenceScore - currentMetrics.confidenceScore
            Event(type, severity) ==
                [timestamp |-> currentMetrics.timestamp,
                 type |-> type,
                 severity |-> severity,
                 confidenceBefore |-> previousMetrics.confidenceScore,
                 confidenceAfter |-> currentMetrics.confidenceScore,
                 transcript |-> GetRecentTranscript(frs, sessionId, 5),
                 aiChallenge |-> aiChallenge]
        IN IF currentMetrics.volumeDrop > 60
           THEN Event("VOLUME_DROP", IF currentMetrics.volumeDrop > 80 THEN "SEVERE" ELSE "MILD")
           ELSE IF confidenceDrop > 25
           THEN Event("CONFIDENCE_COLLAPSE", IF confidenceDrop > 40 THEN "SEVERE" ELSE "MODERATE")
           ELSE IF currentMetrics.ideaAbandonment
           THEN Event("IDEA_ABANDON", "MODERATE")
           ELSE IF currentMetrics.voiceTremor > 70
           THEN Event("VOICE_TREMOR", IF currentMetrics.voiceTremor > 85 THEN "SEVERE" ELSE "MODERATE")
           ELSE IF currentMetrics.toneDrop > 60
           THEN Event("TONE_DROP", "MILD")
           ELSE Null

\* detectStepBack(sessionId, currentMetrics, previousMetrics, aiChallenge):
\* the event, or Null
DetectStepBack(frs, sessionId, currentMetrics, previousMetrics, aiChallenge) ==
    IF previousMetrics = NoMetrics THEN Null
    ELSE
        LET confidenceDrop == previousMetrics.confidenceScore - currentMetrics.confidenceScore
            Event(type, severity) ==
                [timestamp |-> currentMetrics.timestamp,
                 type |-> type,
                 severity |-> severity,
                 confidenceBefore |-> previousMetrics.confidenceScore,
                 confidenceAfter |-> currentMetrics.confidenceScore,
                 transcript |-> GetRecentTranscript(frs, sessionId, 5),
                 aiChallenge |-> aiChallenge]
        IN IF confidenceDrop > 25
           THEN Event("CONFIDENCE_COLLAPSE", IF confidenceDrop > 40 THEN "SEVERE" ELSE "MODERATE")
           ELSE IF currentMetrics.ideaAbandonment
           THEN Event("IDEA_ABANDON", "MODERATE")
           ELSE IF currentMetrics.voiceTremor > 70
           THEN Event("VOICE_TREMOR", IF currentMetrics.voiceTremor > 85 THEN "SEVERE" ELSE "MODERATE")
           ELSE IF currentMetrics.volumeDrop > 60
           THEN Event("VOLUME_DROP", IF currentMetrics.volumeDrop > 80 THEN "SEVERE" ELSE "MILD")
           ELSE IF currentMetrics.toneDrop > 60
           THEN Event("TONE_DROP", "MILD")
           ELSE Null

\* ---------------------------------------------------------------------------
\* GtoSimulationGateway, with one client socket.
\*
\* A handler runs without interruption up to its next await; what follows the
\* await is a separate step, taken when the awaited store call completes.  The
\* synchronous parts work on a record g of everything they can read or write.
\* ---------------------------------------------------------------------------
START_OF_TIME == 1000000
TICK_MS == 1000

NoSession == 0

\* the socket before handleConnection has run
NewSocket ==
    [connection |-> "new",
     rooms |-> {},
     sessionId |-> NoSession,
     sessionStartMs |-> 0,
     wordsSinceLastInterrupt |-> 0,
     previousMetrics |-> NoMetrics,
     lastAiChallenge |-> NoText,
     stepBackEvents |-> <<>>,
     fullTranscript |-> <<>>,
     aiInterventions |-> <<>>]

World ==
    [states |-> states, sessionFrames |-> sessionFrames, baselines |-> baselines,
     timers |-> timers, client |-> client, db |-> db, agentLogs |-> agentLogs,
     emitted |-> emitted, countdownEmitted |-> countdownEmitted,
     pending |-> pending, now |-> now]

Install(g) ==
    /\ states' = g.states
    /\ sessionFrames' = g.sessionFrames
    /\ baselines' = g.baselines
    /\ timers' = g.timers
    /\ client' = g.client
    /\ db' = g.db
    /\ agentLogs' = g.agentLogs
    /\ emitted' = g.emitted
    /\ countdownEmitted' = g.countdownEmitted
    /\ pending' = g.pending
    /\ now' = g.now

\* Whether session has been finalized, or its socket has disconnected, in g.
\* Every emitted event records it (stale) for the moment it was emitted.
Stale(g, session) ==
    session \notin DOMAIN g.states \/ g.client.connection = "disconnected"

\* client.emit(event, data) in a message handler; session is the session the data is about
Emit(g, event, session, data) ==
    [g EXCEPT !.emitted = Append(@, [event |-> event, session |-> session,
                                     stale |-> Stale(g, session), data |-> data])]

\* client.emit('sim:ai_interrupt', decision); the event records (producedAt) the
\* timestamp of the snapshot whose evaluation decided it
EmitInterrupt(g, session, decision, metrics) ==
    [g EXCEPT !.emitted = Append(@, [event |-> "sim:ai_interrupt", session |-> session,
                                     stale |-> Stale(g, session), data |-> decision,
                                     producedAt |-> metrics.timestamp])]

\* client.emit(event, data) in the countdown callback
EmitCountdown(g, event, session, data) ==
    [g EXCEPT !.countdownEmitted = Append(@, [event |-> event, session |-> session,
                                              stale |-> Stale(g, session), data |-> data])]

\* this.server.to(`sim:${sessionId}`).emit(event, data) in the countdown callback
EmitToRoom(g, event, session, data) == EmitCountdown(g, event, session, data)

\* an awaited call or a setTimeout is put in flight
Suspend(g, item) == [g EXCEPT !.pending = Append(@, item)]

RemoveAt(q, i) == [j \in 1..(Len(q) - 1) |-> IF j < i THEN q[j] ELSE q[j + 1]]

\* cleanup(sessionId)
Cleanup(g, sessionId) ==
    [g EXCEPT !.timers = [s \in DOMAIN g.timers \ {sessionId} |-> g.timers[s]]]

\* handleEnd that keeps the clock, the window and the state until the row is written
HandleEndSync_KeepsUntilWritten(g, reason) ==
    IF g.client.sessionId = NoSession THEN g
    ELSE
        LET sid == g.client.sessionId
            ended == PressureEndSession(g.states, sid)
        IN Suspend(g, [kind |-> "update",
                       where |-> sid,
                       data |-> [status |-> "COMPLETED",
                                 transcript |-> g.client.fullTranscript,
                                 stepBackEvents |-> g.client.stepBackEvents,
                                 aiInterventions |-> g.client.aiInterventions,
                                 pressureFinalState |-> ended.returned,
                                 endReason |-> IF reason = "" THEN "MANUAL" ELSE reason],
                       pressureState |-> ended.returned])

\* the part of handleEnd up to its await of gTOTestSession.update
HandleEndSync(g, reason) ==
    IF g.client.sessionId = NoSession THEN g
    ELSE
        LET sid == g.client.sessionId
            g1 == Cleanup(g, sid)
            ended == PressureEndSession(g1.states, sid)
            voice == VoiceEndSession(g1.sessionFrames, g1.baselines, sid)
            g2 == [g1 EXCEPT !.states = ended.states,
                             !.sessionFrames = voice.sessionFrames,
                             !.baselines = voice.baselines]
        IN Suspend(g2, [kind |-> "update",
                        where |-> sid,
                        data |-> [status |-> "COMPLETED",
                                  transcript |-> g.client.fullTranscript,
                                  stepBackEvents |-> g.client.stepBackEvents,
                                  aiInterventions |-> g.client.aiInterventions,
                                  pressureFinalState |-> ended.returned,
                                  endReason |-> IF reason = "" THEN "MANUAL" ELSE reason],
                        pressureState |-> ended.returned])

\* the part of handleEnd after the await: the row is written, sim:ended is emitted
HandleEndResume(g, item) ==
    LET ps == item.pressureState
        g1 == [g EXCEPT !.db[item.where] =
                    [@ EXCEPT !.status = item.data.status,
                              !.updates = Append(@, item.data)]]
    IN Emit(g1, "sim:ended", g1.client.sessionId,
            [sessionId |-> g1.client.sessionId,
             totalStepBacks |-> Len(g1.client.stepBackEvents),
             totalInterruptions |-> IF ps = Undefined THEN 0 ELSE ps.interruptionCount,
             maxPressureLevel |-> IF ps = Undefined THEN 1 ELSE ps.currentLevel])

\* startCountdown(sessionId, durationSec, client)
StartCountdown(g, sessionId, durationSec) ==
    [g EXCEPT !.timers = [s \in DOMAIN g.timers \cup {sessionId} |->
                            IF s = sessionId
                            THEN [remaining |-> durationSec, durationSec |-> durationSec]
                            ELSE g.timers[s]]]

\* one run of the interval callback of the countdown started for sessionId
CountdownCallback(g, sessionId) ==
    LET t == g.timers[sessionId]
        remaining == t.remaining - 1
        g0 == [g EXCEPT !.timers[sessionId].remaining = remaining]
        g1 == IF remaining % 5 = 0
              THEN EmitToRoom(g0, "sim:tick", sessionId,
                              [remaining |-> remaining, elapsed |-> t.durationSec - remaining])
              ELSE g0
        g2 == IF remaining = t.durationSec \div 2
              THEN EmitCountdown(g1, "sim:ai_speak", sessionId,
                                 [type |-> "TIME_WARNING", pressureLevel |-> 3])
              ELSE g1
        g3 == IF remaining = 60
              THEN EmitCountdown(g2, "sim:ai_speak", sessionId,
                                 [type |-> "TIME_WARNING", pressureLevel |-> 4])
              ELSE g2
    IN IF remaining <= 0
       THEN HandleEndSync(
                EmitCountdown(Cleanup(g3, sessionId), "sim:ai_speak", sessionId,
                              [type |-> "TIME_UP", pressureLevel |-> 5]),
                "TIMEOUT")
       ELSE g3

\* the interval callbacks that are due after one more second, run in the order
\* their countdowns were started; a countdown cleared by an earlier callback does not run
RECURSIVE RunCountdowns(_, _)
RunCountdowns(g, ids) ==
    IF ids = {} THEN g
    ELSE LET s == CHOOSE x \in ids : \A y \in ids : x <= y
         IN RunCountdowns(IF s \in DOMAIN g.timers THEN CountdownCallback(g, s) ELSE g,
                          ids \ {s})

\* the end of handleVoiceFrame without the reset of the word counter
FrameTail_KeepsWords(g, metrics, rnd) ==
    LET c == g.client
        elapsed == g.now - c.sessionStartMs
        r == EvaluateInterruption(g.states, c.sessionId, metrics, elapsed,
                                  c.wordsSinceLastInterrupt, rnd)
        decision == r.decision
        g1 == [g EXCEPT !.states = r.states]
        g2 == IF decision.shouldInterrupt
              THEN LET g3 == [g1 EXCEPT
                                !.client.lastAiChallenge = decision.text,
                                !.client.aiInterventions =
                                    Append(@, [timestamp |-> elapsed,
                                               text |-> decision.text,
                                               type |-> decision.interruptionType,
                                               level |-> decision.pressureLevel])]
                   IN IF decision.waitBeforeMs > 0
                      THEN Suspend(g3, [kind |-> "timeout",
                                        dueAt |-> g.now + decision.waitBeforeMs,
                                        session |-> c.sessionId,
                                        decision |-> decision,
                                        metrics |-> metrics])
                      ELSE EmitInterrupt(g3, c.sessionId, decision, metrics)
              ELSE g1
    IN [g2 EXCEPT !.client.previousMetrics = metrics]

\* the part of handleVoiceFrame from "3. Evaluate interruption" to its end
FrameTail(g, metrics, rnd) ==
    LET c == g.client
        elapsed == g.now - c.sessionStartMs
        r == EvaluateInterruption(g.states, c.sessionId, metrics, elapsed,
                                  c.wordsSinceLastInterrupt, rnd)
        decision == r.decision
        g1 == [g EXCEPT !.states = r.states]
        g2 == IF decision.shouldInterrupt
              THEN LET g3 == [g1 EXCEPT
                                !.client.wordsSinceLastInterrupt = 0,
                                !.client.lastAiChallenge = decision.text,
                                !.client.aiInterventions =
                                    Append(@, [timestamp |-> elapsed,
                                               text |-> decision.text,
                                               type |-> decision.interruptionType,
                                               level |-> decision.pressureLevel])]
                   IN IF decision.waitBeforeMs > 0
                      THEN Suspend(g3, [kind |-> "timeout",
                                        dueAt |-> g.now + decision.waitBeforeMs,
                                        session |-> c.sessionId,
                                        decision |-> decision,
                                        metrics |-> metrics])
                      ELSE EmitInterrupt(g3, c.sessionId, decision, metrics)
              ELSE g1
    IN [g2 EXCEPT !.client.previousMetrics = metrics]

\* handleVoiceFrame up to its await of agentLog.create, or to its end when no
\* step-back is detected
HandleVoiceFrameSync(g, frame, rnd) ==
    IF g.client.sessionId = NoSession THEN g
    ELSE
        LET sid == g.client.sessionId
            g1 == IF HasTranscript(frame)
                  THEN [g EXCEPT !.client.fullTranscript = Append(@, frame.transcript),
                                 !.client.wordsSinceLastInterrupt = @ + frame.wordCount]
                  ELSE g
            p == ProcessFrame(g1.sessionFrames, g1.baselines, sid, frame, g1.now)
            g2 == Emit([g1 EXCEPT !.sessionFrames = p.sessionFrames,
                                  !.baselines = p.baselines],
                       "sim:metrics", sid, p.metrics)
            stepBack == DetectStepBack(g2.sessionFrames, sid, p.metrics,
                                       g2.client.previousMetrics, g2.client.lastAiChallenge)
        IN IF stepBack # Null
           THEN LET g3 == [g2 EXCEPT !.client.stepBackEvents = Append(@, stepBack),
                                     !.states = RecordStepBack(@, sid)]
                IN Suspend(g3, [kind |-> "agentLog",
                                data |-> [action |-> "STEP_BACK_DETECTED",
                                          inputPayload |-> stepBack,
                                          pressureState |->
                                              IF sid \in DOMAIN g3.states
                                              THEN g3.states[sid] ELSE Undefined],
                                metrics |-> p.metrics,
                                stepBack |-> stepBack])
           ELSE FrameTail(g2, p.metrics, rnd)

\* handleVoiceFrame after the await: the audit row is written, sim:step_back emitted
HandleVoiceFrameResume(g, item, rnd) ==
    LET g1 == [g EXCEPT !.agentLogs = Append(@, item.data)]
        g2 == Emit(g1, "sim:step_back", g1.client.sessionId, item.stepBack)
    IN FrameTail(g2, item.metrics, rnd)

\* the part of handleStart after the await of gTOTestSession.create
HandleStartResume(g, item) ==
    LET sid == item.session
        g1 == [g EXCEPT !.client.sessionId = sid,
                        !.client.sessionStartMs = g.now,
                        !.client.rooms = IF g.client.connection = "connected"
                                         THEN @ \cup {sid} ELSE @]
        voice == VoiceInitSession(g1.sessionFrames, g1.baselines, sid)
        g2 == [g1 EXCEPT !.sessionFrames = voice.sessionFrames,
                         !.baselines = voice.baselines,
                         !.states = PressureInitSession(@, sid)]
        g3 == StartCountdown(g2, sid, item.config.durationSec)
        g4 == Emit(g3, "sim:ai_speak", sid, [type |-> "OPENING", pressureLevel |-> 1])
    IN Emit(g4, "sim:started", sid,
            [sessionId |-> sid, durationSec |-> item.config.durationSec])

\* handleDisconnect(client)
HandleDisconnectSync(g) ==
    LET g0 == [g EXCEPT !.client.connection = "disconnected", !.client.rooms = {}]
        sid == g.client.sessionId
    IN IF sid # NoSession
       THEN LET g1 == Cleanup(g0, sid)
                voice == VoiceEndSession(g1.sessionFrames, g1.baselines, sid)
            IN [g1 EXCEPT !.sessionFrames = voice.sessionFrames,
                          !.baselines = voice.baselines,
                          !.states = PressureEndSession(@, sid).states]
       ELSE g0

\* ---- what the client sends and what the draws are -------------------------
DurationChoices == {2, 25}

CalmFrame(ts) ==
    [timestamp |-> ts, rmsVolume |-> 8, pitchHz |-> 200, pitchVariance |-> 0,
     speechRate |-> 120, pauseDurationMs |-> 0, fillerWordCount |-> 0,
     wordCount |-> 40, transcript |-> "plan"]

ShakyFrame(ts) ==
    [timestamp |-> ts, rmsVolume |-> 2, pitchHz |-> 100, pitchVariance |-> 40,
     speechRate |-> 60, pauseDurationMs |-> 4000, fillerWordCount |-> 5,
     wordCount |-> 1, transcript |-> "um"]

\* the frames a client sends at this moment: it stamps its k-th frame k seconds
FrameChoices ==
    LET ts == (requests.frames + 1) * 1000
    IN {CalmFrame(ts), ShakyFrame(ts)}

\* draws of one evaluateInterruption call: interrupt at once, interrupt after a
\* delay, or lose the probability draw
GatewayDraws ==
    { [draw |-> 0, cat |-> 0, tmpl |-> 0, imm |-> 0, delay |-> 0],
      [draw |-> 0, cat |-> 999, tmpl |-> 999, imm |-> 999, delay |-> 999],
      [draw |-> 999, cat |-> 0, tmpl |-> 0, imm |-> 0, delay |-> 0] }

\* ---- the steps of the gateway ---------------------------------------------
InitGateway ==
    /\ sessionFrames = <<>>
    /\ baselines = <<>>
    /\ timers = <<>>
    /\ client = NewSocket
    /\ db = <<>>
    /\ agentLogs = <<>>
    /\ emitted = <<>>
    /\ countdownEmitted = <<>>
    /\ pending = <<>>
    /\ now = START_OF_TIME
    /\ requests = [frames |-> 0, ends |-> 0, ticks |-> 0]

Init ==
    /\ InitGateway
    /\ states = <<>>
    /\ lastCall = [op |-> "none"]
    /\ hist = [relieved |-> FALSE, confident |-> FALSE, maxLevel |-> 1]

\* handleConnection(client), for a client with a valid token
HandleConnection ==
    /\ client.connection = "new"
    /\ client' = [client EXCEPT !.connection = "connected",
                                !.stepBackEvents = <<>>,
                                !.fullTranscript = <<>>,
                                !.aiInterventions = <<>>,
                                !.wordsSinceLastInterrupt = 0]
    /\ emitted' = Append(emitted, [event |-> "connected", session |-> NoSession,
                                   stale |-> FALSE, data |-> <<>>])
    /\ UNCHANGED <<states, sessionFrames, baselines, timers, db, agentLogs, pending,
                   countdownEmitted,
                   now, requests, lastCall, hist>>

\* sim:start arrives: handleStart runs up to its await of gTOTestSession.create
HandleStart ==
    /\ client.connection = "connected"
    /\ Cardinality(DOMAIN db) < MaxSessions
    /\ \E d \in DurationChoices :
        LET sid == Cardinality(DOMAIN db) + 1
        IN /\ db' = [s \in DOMAIN db \cup {sid} |->
                        IF s = sid
                        THEN [status |-> "ACTIVE", durationSec |-> d, updates |-> <<>>]
                        ELSE db[s]]
           /\ pending' = Append(pending, [kind |-> "create", session |-> sid,
                                          config |-> [durationSec |-> d]])
    /\ UNCHANGED <<states, sessionFrames, baselines, timers, client, agentLogs, emitted,
                   countdownEmitted, now, requests, lastCall, hist>>

\* sim:voice_frame arrives
HandleVoiceFrame ==
    /\ client.connection = "connected"
    /\ requests.frames < MaxFrames
    /\ \E frame \in FrameChoices, rnd \in GatewayDraws :
        Install(HandleVoiceFrameSync(World, frame, rnd))
    /\ requests' = [requests EXCEPT !.frames = @ + 1]
    /\ UNCHANGED <<lastCall, hist>>

\* sim:end arrives
HandleEnd ==
    /\ client.connection = "connected"
    /\ requests.ends < MaxEndRequests
    /\ Install(HandleEndSync(World, ""))
    /\ requests' = [requests EXCEPT !.ends = @ + 1]
    /\ UNCHANGED <<lastCall, hist>>

\* the socket disconnects
HandleDisconnect ==
    /\ client.connection = "connected"
    /\ Install(HandleDisconnectSync(World))
    /\ UNCHANGED <<requests, lastCall, hist>>

\* an awaited store call completes and its handler continues
StoreCallCompletes ==
    \E i \in 1..Len(pending) :
        LET item == pending[i]
            g == [World EXCEPT !.pending = RemoveAt(pending, i)]
        IN /\ \/ item.kind = "create" /\ Install(HandleStartResume(g, item))
              \/ item.kind = "update" /\ Install(HandleEndResume(g, item))
              \/ /\ item.kind = "agentLog"
                 /\ \E rnd \in GatewayDraws : Install(HandleVoiceFrameResume(g, item, rnd))
           /\ UNCHANGED <<requests, lastCall, hist>>

\* a setTimeout callback of a delayed interruption runs
DelayedInterrupt ==
    \E i \in 1..Len(pending) :
        LET item == pending[i]
            g == [World EXCEPT !.pending = RemoveAt(pending, i)]
        IN /\ item.kind = "timeout"
           /\ item.dueAt <= now
           /\ Install(EmitInterrupt(g, item.session, item.decision, item.metrics))
           /\ UNCHANGED <<requests, lastCall, hist>>

\* k seconds pass in which no message arrives and no store call completes: the
\* countdown callbacks run once per second.  A timeout that is due runs before
\* more time passes, and time passes one second at a time while one is waiting.
\* The passing of time is followed only while a countdown or a timeout is scheduled.
RECURSIVE SecondsPass(_, _)
SecondsPass(g, k) ==
    IF k = 0 THEN g
    ELSE SecondsPass(RunCountdowns([g EXCEPT !.now = @ + TICK_MS], DOMAIN g.timers), k - 1)

SecondsChoices == {1, 21}

Tick ==
    /\ requests.ticks < MaxTicks
    /\ DOMAIN timers # {} \/ \E i \in 1..Len(pending) : pending[i].kind = "timeout"
    /\ \E k \in SecondsChoices :
        /\ \A i \in 1..Len(pending) :
                pending[i].kind = "timeout" => (pending[i].dueAt > now /\ k = 1)
        /\ Install(SecondsPass(World, k))
    /\ requests' = [requests EXCEPT !.ticks = @ + 1]
    /\ UNCHANGED <<lastCall, hist>>

\* ---- a client that also sends frames lacking fields ------------------------
\* a frame that carries the audio features only: pauseDurationMs, wordCount and
\* transcript are missing from the message
BareFrame(ts) ==
    [timestamp |-> ts, rmsVolume |-> 8, pitchHz |-> 200, pitchVariance |-> 0,
     speechRate |-> 120, fillerWordCount |-> 0]

MalformedFrameChoices == {BareFrame((requests.frames + 1) * 1000)}

\* sim:voice_frame arrives with a malformed frame: the same handler runs
HandleMalformedFrame ==
    /\ client.connection = "connected"
    /\ requests.frames < MaxFrames
    /\ \E frame \in MalformedFrameChoices, rnd \in GatewayDraws :
        /\ Install(HandleVoiceFrameSync(World, frame, rnd))
        /\ lastCall' = [op |-> "malformedFrame", frame |-> frame]
    /\ requests' = [requests EXCEPT !.frames = @ + 1]
    /\ UNCHANGED hist

NextShape ==
    \/ HandleConnection
    \/ HandleStart
    \/ HandleVoiceFrame
    \/ HandleMalformedFrame
    \/ StoreCallCompletes
    \/ DelayedInterrupt
    \/ Tick

SpecShape == Init /\ [][NextShape]_vars

\* ---- one session of a short, a medium or a long duration, left to run out ---
CountdownDurationChoices == {2, 62, 120, 124}

\* sim:start arrives with one of the durations above
CountdownHandleStart ==
    /\ client.connection = "connected"
    /\ DOMAIN db = {}
    /\ \E d \in CountdownDurationChoices :
        /\ db' = <<[status |-> "ACTIVE", durationSec |-> d, updates |-> <<>>]>>
        /\ pending' = Append(pending, [kind |-> "create", session |-> 1,
                                       config |-> [durationSec |-> d]])
    /\ UNCHANGED <<states, sessionFrames, baselines, timers, client, agentLogs, emitted,
                   countdownEmitted, now, requests, lastCall, hist>>

\* one second passes while the store has nothing to answer
CountdownTick ==
    /\ client.sessionId # NoSession
    /\ now - client.sessionStartMs < MaxCountdownSeconds * TICK_MS
    /\ pending = <<>>
    /\ Install(SecondsPass(World, 1))
    /\ requests' = [requests EXCEPT !.ticks = @ + 1]
    /\ UNCHANGED <<lastCall, hist>>

NextCountdown ==
    \/ HandleConnection
    \/ CountdownHandleStart
    \/ StoreCallCompletes
    \/ CountdownTick

SpecCountdown == Init /\ [][NextCountdown]_vars

\* ---- a stream of frames of one session, some delivered late ----------------
\* the stamps of the k-th frame received: k seconds into the session, or half a
\* second into it for a frame that was captured early and delivered late
StreamFrameStamps(k) == {k * 1000, 500}

StreamFrameChoices ==
    UNION {{CalmFrame(ts), ShakyFrame(ts)} : ts \in StreamFrameStamps(requests.frames + 1)}

\* sim:voice_frame arrives
StreamVoiceFrame ==
    /\ client.connection = "connected"
    /\ requests.frames < MaxStreamFrames
    /\ \E frame \in StreamFrameChoices, rnd \in GatewayDraws :
        Install(HandleVoiceFrameSync(World, frame, rnd))
    /\ requests' = [requests EXCEPT !.frames = @ + 1]
    /\ UNCHANGED <<lastCall, hist>>

NextStream ==
    \/ HandleConnection
    \/ HandleStart
    \/ StreamVoiceFrame
    \/ StoreCallCompletes
    \/ DelayedInterrupt
    \/ Tick

SpecStream == Init /\ [][NextStream]_vars

\* ---- one long session in which a frame arrives every 21 seconds -----------
LongDuration == 150
LONG_PERIOD == 21

\* sim:start arrives for a session of LongDuration seconds
LongHandleStart ==
    /\ client.connection = "connected"
    /\ DOMAIN db = {}
    /\ db' = <<[status |-> "ACTIVE", durationSec |-> LongDuration, updates |-> <<>>]>>
    /\ pending' = Append(pending, [kind |-> "create", session |-> 1,
                                   config |-> [durationSec |-> LongDuration]])
    /\ UNCHANGED <<states, sessionFrames, baselines, timers, client, agentLogs, emitted,
                   countdownEmitted, now, requests, lastCall, hist>>

\* the candidate speaks for 21 seconds; the store has answered every call
LongTick ==
    /\ client.sessionId # NoSession
    /\ requests.ticks = requests.frames
    /\ requests.frames < MaxLongFrames
    /\ \A i \in 1..Len(pending) : pending[i].kind = "timeout"
    /\ Install(SecondsPass(World, LONG_PERIOD))
    /\ requests' = [requests EXCEPT !.ticks = @ + 1]
    /\ UNCHANGED <<lastCall, hist>>

\* sim:voice_frame arrives with the frame of the last 21 seconds, once the
\* interruption decided on the frame before has been spoken
LongVoiceFrame ==
    /\ client.connection = "connected"
    /\ requests.ticks = requests.frames + 1
    /\ pending = <<>>
    /\ \E rnd \in GatewayDraws :
        \E frame \in {CalmFrame(requests.ticks * LONG_PERIOD * TICK_MS),
                       ShakyFrame(requests.ticks * LONG_PERIOD * TICK_MS)} :
            Install(HandleVoiceFrameSync(World, frame, rnd))
    /\ requests' = [requests EXCEPT !.frames = @ + 1]
    /\ UNCHANGED <<lastCall, hist>>

\* sim:end arrives, once
LongHandleEnd ==
    /\ client.connection = "connected"
    /\ requests.ends = 0
    /\ Install(HandleEndSync(World, ""))
    /\ requests' = [requests EXCEPT !.ends = @ + 1]
    /\ UNCHANGED <<lastCall, hist>>

NextLong ==
    \/ HandleConnection
    \/ LongHandleStart
    \/ LongTick
    \/ LongVoiceFrame
    \/ LongHandleEnd
    \/ StoreCallCompletes
    \/ DelayedInterrupt

SpecLong == Init /\ [][NextLong]_vars

\* ---- a store that can reject the final write of a session ----------------
\* gTOTestSession.update rejects: the await in handleEnd throws, the handler
\* ends there, the row is not written and sim:ended is not emitted
StoreCallFails ==
    \E i \in 1..Len(pending) :
        /\ pending[i].kind = "update"
        /\ pending' = RemoveAt(pending, i)
        /\ lastCall' = [op |-> "updateFailed", where |-> pending[i].where]
        /\ UNCHANGED <<states, sessionFrames, baselines, timers, client, db, agentLogs,
                       emitted, countdownEmitted, now, requests, hist>>

\* agentLog.create rejects: the await in handleVoiceFrame throws and the handler
\* ends there, with nothing after the await executed
AuditWriteFails ==
    \E i \in 1..Len(pending) :
        /\ pending[i].kind = "agentLog"
        /\ pending' = RemoveAt(pending, i)
        /\ lastCall' = [op |-> "auditFailed", stepBack |-> pending[i].stepBack]
        /\ UNCHANGED <<states, sessionFrames, baselines, timers, client, db, agentLogs,
                       emitted, countdownEmitted, now, requests, hist>>

NextStore ==
    \/ HandleConnection
    \/ HandleStart
    \/ HandleVoiceFrame
    \/ HandleEnd
    \/ StoreCallCompletes
    \/ StoreCallFails
    \/ AuditWriteFails
    \/ DelayedInterrupt
    \/ Tick

SpecStore == Init /\ [][NextStore]_vars

Next ==
    \/ HandleConnection
    \/ HandleStart
    \/ HandleVoiceFrame
    \/ HandleEnd
    \/ HandleDisconnect
    \/ StoreCallCompletes
    \/ DelayedInterrupt
    \/ Tick

Spec == Init /\ [][Next]_vars

\* ---- sessions the client never ends, followed second by second -----------
ClockDurationChoices == {10, 23}

\* sim:start arrives with one of the durations above
ClockHandleStart ==
    /\ client.connection = "connected"
    /\ Cardinality(DOMAIN db) < MaxClockSessions
    /\ \E d \in ClockDurationChoices :
        LET sid == Cardinality(DOMAIN db) + 1
        IN /\ db' = [s \in DOMAIN db \cup {sid} |->
                        IF s = sid
                        THEN [status |-> "ACTIVE", durationSec |-> d, updates |-> <<>>]
                        ELSE db[s]]
           /\ pending' = Append(pending, [kind |-> "create", session |-> sid,
                                          config |-> [durationSec |-> d]])
    /\ UNCHANGED <<states, sessionFrames, baselines, timers, client, agentLogs, emitted,
                   countdownEmitted, now, requests, lastCall, hist>>

\* one second passes after a session has started; the store answers within the
\* second, and a timeout that is due runs first
ClockTick ==
    /\ client.sessionId # NoSession
    /\ now - client.sessionStartMs < MaxClockSeconds * TICK_MS
    /\ \A i \in 1..Len(pending) : pending[i].kind = "timeout" /\ pending[i].dueAt > now
    /\ Install(SecondsPass(World, 1))
    /\ requests' = [requests EXCEPT !.ticks = @ + 1]
    /\ UNCHANGED <<lastCall, hist>>

NextClock ==
    \/ HandleConnection
    \/ ClockHandleStart
    \/ HandleVoiceFrame
    \/ StoreCallCompletes
    \/ DelayedInterrupt
    \/ ClockTick

SpecClock == Init /\ [][NextClock]_vars

\* ---------------------------------------------------------------------------
\* The PressureEngine driven through its API (one session, id ENGINE_SESSION)
\* ---------------------------------------------------------------------------
ENGINE_SESSION == 1

NoSelection == [cat |-> 0, tmpl |-> 0, imm |-> 0, delay |-> 0]

\* draws for the category, the template and the speaking delay
SelectionDraws ==
    { [cat |-> 0, tmpl |-> 0, imm |-> 299, delay |-> 999],
      [cat |-> 999, tmpl |-> 999, imm |-> 300, delay |-> 0],
      [cat |-> 500, tmpl |-> 500, imm |-> 999, delay |-> 999],
      [cat |-> 0, tmpl |-> 0, imm |-> 699, delay |-> 500] }

ConfidenceChoices == {70, 80, 81, 86}
CalmConfidenceChoices == {0, 80}

\* The inputs of a call in state st: the values at which every rule just passes,
\* the values at which exactly one rule just fails, and the elapsed times late.
CallInputs(st, confidences, late) ==
    LET gap == st.lastInterruptionAt + MinGapMs(st.currentLevel)
        at == Max(GRACE_MS, gap)
        words == MinWords(st.currentLevel)
        p(c) == Probability(st.currentLevel, c)
    IN  { [elapsedMs |-> at, words |-> words, confidenceScore |-> c, draw |-> Min(999, p(c))] :
            c \in confidences }
        \cup { [elapsedMs |-> at, words |-> words, confidenceScore |-> c, draw |-> p(c) + 1] :
            c \in {k \in confidences : p(k) + 1 <= 999} }
        \cup { [elapsedMs |-> e, words |-> words + 6, confidenceScore |-> 86, draw |-> 0] :
            e \in {0, GRACE_MS - 1, gap - 1, st.lastInterruptionAt + 8000} \cup late }
        \cup { [elapsedMs |-> at, words |-> w, confidenceScore |-> 86, draw |-> 0] :
            w \in {0, words - 1} }

InitEngine ==
    /\ InitGateway
    /\ states = PressureInitSession(<<>>, ENGINE_SESSION)
    /\ lastCall = [op |-> "initSession"]
    /\ hist = [relieved |-> FALSE, confident |-> FALSE, maxLevel |-> 1]

\* a caller invokes evaluateInterruption with one of the inputs
EvaluateCall(confidences, late, maxInterruptions) ==
    LET st == states[ENGINE_SESSION] IN
    /\ st.interruptionCount < maxInterruptions
    /\ \E in \in CallInputs(st, confidences, late) :
       /\ in.elapsedMs <= MaxElapsed
       /\ \E sel \in (IF /\ TimingAllows(st, in.elapsedMs)
                         /\ WordsAllow(st, in.words)
                         /\ DrawAllows(st, in.confidenceScore, in.draw)
                      THEN SelectionDraws ELSE {NoSelection}) :
          LET rnd == [draw |-> in.draw, cat |-> sel.cat, tmpl |-> sel.tmpl,
                      imm |-> sel.imm, delay |-> sel.delay]
              metrics == [confidenceScore |-> in.confidenceScore]
              r == EvaluateInterruption(states, ENGINE_SESSION, metrics,
                                        in.elapsedMs, in.words, rnd)
          IN /\ states' = r.states
             /\ lastCall' = [op |-> "evaluateInterruption",
                             confidenceScore |-> in.confidenceScore,
                             elapsedMs |-> in.elapsedMs, words |-> in.words,
                             rnd |-> rnd, before |-> st, decision |-> r.decision]
             /\ hist' = [hist EXCEPT
                             !.confident = @ \/ (r.decision.shouldInterrupt
                                                    /\ in.confidenceScore > 80),
                             !.maxLevel = Max(@, r.states[ENGINE_SESSION].currentLevel)]
             /\ UNCHANGED gatewayVars

CallEvaluateInterruption ==
    EvaluateCall(ConfidenceChoices,
                 {states[ENGINE_SESSION].lastInterruptionAt + 30000}, MaxInterruptions)

\* the same call for a candidate whose confidence never exceeds 80
CalmEvaluateInterruption == EvaluateCall(CalmConfidenceChoices, {}, MaxCalmInterruptions)

\* a caller invokes recordStepBack
CallRecordStepBack ==
    LET st == states[ENGINE_SESSION] IN
    /\ st.candidateStepBacks < MaxStepBacks
    /\ states' = RecordStepBack(states, ENGINE_SESSION)
    /\ lastCall' = [op |-> "recordStepBack", before |-> st]
    /\ hist' = [hist EXCEPT !.relieved =
                   @ \/ states'[ENGINE_SESSION].currentLevel < st.currentLevel]
    /\ UNCHANGED gatewayVars

NextEngine == CallEvaluateInterruption \/ CallRecordStepBack

SpecEngine == InitEngine /\ [][NextEngine]_vars

NextCalm == CalmEvaluateInterruption \/ CallRecordStepBack

SpecCalm == InitEngine /\ [][NextCalm]_vars

\* ---- calls for a session id the engine holds no state for ------------------
UNKNOWN_SESSION == 2

\* inputs of such a call: one that passes every rule of a fresh session, and
\* ones that fail the grace period, the word rule or the draw
UnknownCallInputs ==
    { [elapsedMs |-> 40000, words |-> 40, confidenceScore |-> 86, draw |-> 0],
      [elapsedMs |-> 0, words |-> 40, confidenceScore |-> 86, draw |-> 0],
      [elapsedMs |-> 40000, words |-> 0, confidenceScore |-> 0, draw |-> 0],
      [elapsedMs |-> 40000, words |-> 40, confidenceScore |-> 0, draw |-> 999] }

\* a caller invokes evaluateInterruption with an id that was never initialised
CallEvaluateUnknown ==
    /\ \E in \in UnknownCallInputs, sel \in SelectionDraws :
          LET rnd == [draw |-> in.draw, cat |-> sel.cat, tmpl |-> sel.tmpl,
                      imm |-> sel.imm, delay |-> sel.delay]
              r == EvaluateInterruption(states, UNKNOWN_SESSION,
                                        [confidenceScore |-> in.confidenceScore],
                                        in.elapsedMs, in.words, rnd)
          IN /\ states' = r.states
             /\ lastCall' = [op |-> "evaluateInterruption(unknown)", input |-> in,
                             statesBefore |-> states, decision |-> r.decision]
    /\ UNCHANGED hist
    /\ UNCHANGED gatewayVars

\* a caller invokes recordStepBack with an id that was never initialised
CallRecordStepBackUnknown ==
    /\ states' = RecordStepBack(states, UNKNOWN_SESSION)
    /\ lastCall' = [op |-> "recordStepBack(unknown)", statesBefore |-> states]
    /\ UNCHANGED hist
    /\ UNCHANGED gatewayVars

NextUnknown ==
    \/ CallEvaluateInterruption
    \/ CallRecordStepBack
    \/ CallEvaluateUnknown
    \/ CallRecordStepBackUnknown

SpecUnknown == InitEngine /\ [][NextUnknown]_vars

\* ---------------------------------------------------------------------------
\* The VoiceAnalysisService driven through its API (one session, id VOICE_SESSION)
\* as the gateway drives it: processFrame, then detectStepBack with the snapshot
\* of the frame before.
\* ---------------------------------------------------------------------------
VOICE_SESSION == 1

\* a caller sends a frame every 3 or every 4 seconds
VoiceFramePeriods == {3000, 4000}

\* or it spreads 12 frames over 31 seconds, sends the 13th at 40 seconds and one
\* more every second after that
SpreadStamp(k) == IF k <= 12 THEN (k * 31000) \div 12 ELSE 40000 + (k - 13) * 1000

\* the timestamps the frame after frames can carry: the first frame sets the
\* schedule, the k-th frame is stamped k periods or by the spread
VoiceFrameStamps(frames) ==
    IF frames = <<>> THEN VoiceFramePeriods \cup {SpreadStamp(1)}
    ELSE IF frames[1].timestamp = SpreadStamp(1) THEN {SpreadStamp(Len(frames) + 1)}
    ELSE {(Len(frames) + 1) * frames[1].timestamp}

QuietFrame(ts) == [CalmFrame(ts) EXCEPT !.rmsVolume = 0]
TrailFrame(ts) == [CalmFrame(ts) EXCEPT !.pauseDurationMs = 4000, !.wordCount = 1]
TremorFrame(ts) == [CalmFrame(ts) EXCEPT !.pitchVariance = 200]
FlatFrame(ts) == [CalmFrame(ts) EXCEPT !.pitchHz = 40]

\* the frames passed after frames: a calm or a trembling start, calm speech
\* for the rest of the first window, anything after it
VoiceFrameChoices(frames) ==
    LET k == Len(frames) + 1
        Kinds(ts) ==
            IF k = 1 THEN {CalmFrame(ts), TremorFrame(ts)}
            ELSE IF k <= WINDOW
            THEN {CalmFrame(ts)}
            ELSE {CalmFrame(ts), QuietFrame(ts), TrailFrame(ts), ShakyFrame(ts),
                  TremorFrame(ts), FlatFrame(ts)}
    IN UNION {Kinds(ts) : ts \in VoiceFrameStamps(frames)}

\* a caller invokes initSession
CallVoiceInitSession ==
    /\ VOICE_SESSION \notin DOMAIN sessionFrames
    /\ LET voice == VoiceInitSession(sessionFrames, baselines, VOICE_SESSION)
       IN /\ sessionFrames' = voice.sessionFrames
          /\ baselines' = voice.baselines
    /\ lastCall' = [op |-> "voiceInitSession"]
    /\ UNCHANGED <<states, timers, client, db, agentLogs, emitted, countdownEmitted,
                   pending, now, requests, hist>>

\* a caller invokes processFrame and then detectStepBack
CallProcessFrame ==
    /\ VOICE_SESSION \in DOMAIN sessionFrames
    /\ Len(sessionFrames[VOICE_SESSION]) < MaxVoiceFrames
    /\ \E frame \in VoiceFrameChoices(sessionFrames[VOICE_SESSION]) :
        LET p == ProcessFrame(sessionFrames, baselines, VOICE_SESSION, frame, now)
            previous == IF lastCall.op = "processFrame" THEN lastCall.metrics ELSE NoMetrics
            event == DetectStepBack(p.sessionFrames, VOICE_SESSION, p.metrics, previous, NoText)
        IN /\ sessionFrames' = p.sessionFrames
           /\ baselines' = p.baselines
           /\ lastCall' = [op |-> "processFrame", frame |-> frame, metrics |-> p.metrics,
                           previous |-> previous, event |-> event,
                           hadBaseline |-> VOICE_SESSION \in DOMAIN baselines]
    /\ UNCHANGED <<states, timers, client, db, agentLogs, emitted, countdownEmitted,
                   pending, now, requests, hist>>

NextVoice == CallVoiceInitSession \/ CallProcessFrame

SpecVoice == Init /\ [][NextVoice]_vars

\* ===========================================================================
\* Properties
\* ===========================================================================
EngineState == states[ENGINE_SESSION]
Evaluated == lastCall.op = "evaluateInterruption"
Interrupted == Evaluated /\ lastCall.decision.shouldInterrupt

\* the number of sim:ended events emitted with the id of session s
EndedEmissions(s) ==
    Cardinality({i \in 1..Len(emitted) :
                    emitted[i].event = "sim:ended" /\ emitted[i].session = s})

\* C1: whatever end requests arrive (duplicates, or one racing the countdown
\* expiry), a session gets at most one persisted completion record and at most
\* one sim:ended emission.
C1_EndedOnce ==
    \A s \in DOMAIN db : Len(db[s].updates) <= 1 /\ EndedEmissions(s) <= 1

\* C3: once a session has been finalized or its socket has disconnected, no
\* countdown is scheduled for it and its countdown emits nothing more.
C3_NoCountdownLeft ==
    /\ \A s \in DOMAIN timers : ~Stale(World, s)
    /\ \A i \in 1..Len(countdownEmitted) : ~countdownEmitted[i].stale

\* C4: the disconnect of a socket whose session has not been ended stops the
\* clock, discards the state of both components and puts the write of the
\* completed session record, with end reason ABRUPT_DISCONNECT, under way.
C4_DisconnectFinalizes ==
    [][ (/\ client.connection = "connected"
         /\ client'.connection = "disconnected"
         /\ client.sessionId \in DOMAIN states)
        => LET sid == client.sessionId
           IN /\ sid \notin DOMAIN timers'
              /\ sid \notin DOMAIN states'
              /\ sid \notin DOMAIN sessionFrames'
              /\ sid \notin DOMAIN baselines'
              /\ \E i \in 1..Len(pending') :
                    /\ pending'[i].kind = "update"
                    /\ pending'[i].where = sid
                    /\ pending'[i].data.endReason = "ABRUPT_DISCONNECT" ]_vars

\* C5: no sim:ai_interrupt is emitted for a session once it has ended, also
\* when the interruption was decided with a speaking delay before the end.
C5_NoInterruptAfterEnd ==
    \A i \in 1..Len(emitted) :
        emitted[i].event = "sim:ai_interrupt" => ~emitted[i].stale

\* C2: in every reachable state the pressure level of every session is an
\* integer between 1 and 5, whatever calls, metrics and draws came before.
C2_LevelInRange == \A s \in DOMAIN states : states[s].currentLevel \in 1..5

\* an interruption made at level 5 by a confident candidate, on a 3rd interruption
C2_Witness ==
    /\ Interrupted
    /\ lastCall.before.currentLevel = 5
    /\ lastCall.confidenceScore > 80
    /\ EngineState.interruptionCount % 3 = 0
    /\ EngineState.currentLevel = 5

\* C6: no evaluateInterruption call with elapsedMs < 15000 interrupts.
C6_GracePeriod == Interrupted => lastCall.elapsedMs >= 15000

\* a call inside the grace period with enough words and a winning draw: no interrupt
C6_Witness ==
    /\ Evaluated
    /\ lastCall.elapsedMs = 14999
    /\ lastCall.words >= 34
    /\ lastCall.rnd.draw = 0
    /\ ~lastCall.decision.shouldInterrupt

\* C7: every interrupting decision comes at least max(8000, 25000 - L*4000) ms
\* after the previous interruption, L being the level before the decision;
\* so two consecutive interruptions are at least 8000 ms apart.
C7_MinimumGap ==
    Interrupted =>
        LET L == lastCall.before.currentLevel
            since == lastCall.elapsedMs - lastCall.before.lastInterruptionAt
        IN /\ since >= (IF 25000 - L * 4000 > 8000 THEN 25000 - L * 4000 ELSE 8000)
           /\ since >= 8000

\* a second or later interruption made exactly 8000 ms after the previous one, at level 5
C7_Witness ==
    /\ Interrupted
    /\ lastCall.before.interruptionCount >= 1
    /\ lastCall.before.currentLevel = 5
    /\ lastCall.elapsedMs - lastCall.before.lastInterruptionAt = 8000

\* C8: every interrupting decision is made with at least max(10, 40 - L*6)
\* words since the last interruption, L being the level before the decision.
C8_MinimumWords ==
    Interrupted =>
        LET L == lastCall.before.currentLevel
        IN lastCall.words >= (IF 40 - L * 6 > 10 THEN 40 - L * 6 ELSE 10)

\* a call one word short, with the timing rules passed and a winning draw: no interrupt
C8_Witness ==
    /\ Evaluated
    /\ ~lastCall.decision.shouldInterrupt
    /\ lastCall.words = MinWords(lastCall.before.currentLevel) - 1
    /\ lastCall.before.currentLevel = 3
    /\ TimingAllows(lastCall.before, lastCall.elapsedMs)
    /\ lastCall.rnd.draw = 0

\* C9: the interruption and challenge counters never decrease, the level
\* decreases only in recordStepBack, and once the level has been above 2 it
\* is never below 2.
C9_Monotonic ==
    [][ /\ EngineState'.interruptionCount >= EngineState.interruptionCount
        /\ EngineState'.challengeCount >= EngineState.challengeCount
        /\ (EngineState'.currentLevel < EngineState.currentLevel
                => lastCall'.op = "recordStepBack")
        /\ (hist'.maxLevel > 2 => EngineState'.currentLevel >= 2) ]_vars

\* a step-back recorded at level 2 after the level had been relieved down from above 2
C9_Witness ==
    /\ lastCall.op = "recordStepBack"
    /\ hist.relieved
    /\ hist.maxLevel > 2
    /\ lastCall.before.currentLevel = 2
    /\ EngineState.candidateStepBacks >= 4
    /\ EngineState.currentLevel = 2

\* C10: while every interruption came with confidence <= 80 and no relief was
\* applied, the level after the n-th interruption is min(5, 1 + floor(n/3));
\* after the 3rd it is one above the level before the 1st.
C10_EveryThird ==
    (~hist.relieved /\ ~hist.confident) =>
        LET n == EngineState.interruptionCount
        IN /\ EngineState.currentLevel = (IF 1 + (n \div 3) < 5 THEN 1 + (n \div 3) ELSE 5)
           /\ (n = 3 => EngineState.currentLevel = InitialPressureState.currentLevel + 1)

\* the 15th interruption of such a session, where 1 + floor(n/3) exceeds the cap
C10_Witness ==
    /\ Interrupted
    /\ ~hist.relieved /\ ~hist.confident
    /\ EngineState.interruptionCount = 15
    /\ EngineState.candidateStepBacks >= 3
    /\ EngineState.currentLevel = 5

\* C11: an interruption after which interruptionCount > 2, made with confidence
\* > 80, raises the level by one, capped at 5, in addition to the raise of an
\* every-3rd interruption: by two when both apply and the level was at most 3.
C11_ConfidentRaise ==
    (Interrupted /\ EngineState.interruptionCount > 2 /\ lastCall.confidenceScore > 80) =>
        LET n == EngineState.interruptionCount
            L == lastCall.before.currentLevel
            third == IF n % 3 = 0 THEN 1 ELSE 0
        IN /\ EngineState.currentLevel = (IF L + third + 1 < 5 THEN L + third + 1 ELSE 5)
           /\ (third = 1 /\ L <= 3 => EngineState.currentLevel = L + 2)

\* the 3rd interruption, made at level 1 with confidence 86: the level becomes 3
C11_Witness ==
    /\ Interrupted
    /\ EngineState.interruptionCount = 3
    /\ lastCall.confidenceScore > 80
    /\ lastCall.before.currentLevel = 1
    /\ EngineState.currentLevel = 3

\* C12: recordStepBack on an active session adds exactly 1 to candidateStepBacks;
\* the first two cumulative step-backs leave the level alone, and from the 3rd
\* on a call lowers the level by exactly one when it is above 2 and leaves it
\* alone when it is 1 or 2; interruptionCount, challengeCount and
\* lastInterruptionAt are not changed.
C12_StepBackRelief ==
    lastCall.op = "recordStepBack" =>
        LET before == lastCall.before
            after == EngineState
        IN /\ after.candidateStepBacks = before.candidateStepBacks + 1
           /\ (after.candidateStepBacks <= 2 => after.currentLevel = before.currentLevel)
           /\ (after.candidateStepBacks >= 3 /\ before.currentLevel > 2
                    => after.currentLevel = before.currentLevel - 1)
           /\ (after.candidateStepBacks >= 3 /\ before.currentLevel \in {1, 2}
                    => after.currentLevel = before.currentLevel)
           /\ after.interruptionCount = before.interruptionCount
           /\ after.challengeCount = before.challengeCount
           /\ after.lastInterruptionAt = before.lastInterruptionAt

\* the 3rd cumulative step-back, recorded at level 5 after interruptions: level 4
C12_Witness ==
    /\ lastCall.op = "recordStepBack"
    /\ EngineState.candidateStepBacks = 3
    /\ lastCall.before.currentLevel = 5
    /\ EngineState.currentLevel = 4
    /\ EngineState.interruptionCount >= 3

\* the last call was processFrame followed by detectStepBack
Detected == lastCall.op = "processFrame"

\* the kind detectStepBack reported for the last frame ("NONE" when it returned none)
ReportedKind == IF lastCall.event = Null THEN "NONE" ELSE lastCall.event.type

\* the kind of the first rule that matches, in the documented order, for the
\* snapshot cur; collapse says whether confidence fell by more than 25
FirstMatchingRule(cur, collapse) ==
    IF collapse THEN "CONFIDENCE_COLLAPSE"
    ELSE IF cur.ideaAbandonment THEN "IDEA_ABANDON"
    ELSE IF cur.voiceTremor > 70 THEN "VOICE_TREMOR"
    ELSE IF cur.volumeDrop > 60 THEN "VOLUME_DROP"
    ELSE IF cur.toneDrop > 60 THEN "TONE_DROP"
    ELSE "NONE"

\* whether confidence fell by more than 25 from the previous snapshot to the last one
ConfidenceCollapsed ==
    IF lastCall.previous = NoMetrics THEN FALSE
    ELSE lastCall.previous.confidenceScore - lastCall.metrics.confidenceScore > 25

\* C13 as stated: on every call detectStepBack reports the kind of the first
\* rule that matches in the order confidence drop > 25, ideaAbandonment,
\* tremor > 70, volumeDrop > 60, toneDrop > 60, and none exactly when no rule
\* matches.
C13_AsStated ==
    Detected => ReportedKind = FirstMatchingRule(lastCall.metrics, ConfidenceCollapsed)

\* C13, amended: when a previous snapshot is given, detectStepBack reports the
\* kind of the first rule that matches in that order (a confidence collapse
\* together with a volume drop is CONFIDENCE_COLLAPSE) and none exactly when
\* no rule matches; when no previous snapshot is given it returns none.
C13_PriorityOrder ==
    Detected =>
        IF lastCall.previous = NoMetrics
        THEN ReportedKind = "NONE"
        ELSE /\ ReportedKind = FirstMatchingRule(lastCall.metrics, ConfidenceCollapsed)
             /\ (ConfidenceCollapsed /\ lastCall.metrics.volumeDrop > 60)
                    => ReportedKind = "CONFIDENCE_COLLAPSE"

\* a snapshot whose confidence fell by more than 25 and whose volume drop is over 60
C13_Witness ==
    /\ Detected
    /\ ConfidenceCollapsed
    /\ lastCall.metrics.volumeDrop > 60
    /\ ReportedKind = "CONFIDENCE_COLLAPSE"

\* the last frame trails off: long pause, under 3 words, volume drop over 40
TrailsOff ==
    /\ Detected
    /\ lastCall.frame.pauseDurationMs > 3000
    /\ lastCall.frame.wordCount < 3
    /\ lastCall.metrics.volumeDrop > 40

\* C14 as stated: a frame with pauseDurationMs > 3000, wordCount < 3 and a
\* computed volumeDrop > 40 gives a snapshot with ideaAbandonment = true, and
\* detectStepBack on that snapshot reports IDEA_ABANDON.
C14_AsStated ==
    TrailsOff => lastCall.metrics.ideaAbandonment /\ ReportedKind = "IDEA_ABANDON"

\* C14, amended: such a frame gives a snapshot with ideaAbandonment = true, and
\* detectStepBack on that snapshot reports IDEA_ABANDON when a previous
\* snapshot is given and confidence has not fallen by more than 25 from it,
\* and CONFIDENCE_COLLAPSE when it has fallen by more than 25.
C14_IdeaAbandon ==
    TrailsOff =>
        /\ lastCall.metrics.ideaAbandonment
        /\ (lastCall.previous # NoMetrics /\ ~ConfidenceCollapsed)
                => ReportedKind = "IDEA_ABANDON"
        /\ ConfidenceCollapsed => ReportedKind = "CONFIDENCE_COLLAPSE"

\* a frame with one word and a 4-second pause, volume drop between 40 and 60:
\* reported as IDEA_ABANDON
C14_Witness ==
    /\ TrailsOff
    /\ lastCall.frame.wordCount = 1
    /\ lastCall.frame.pauseDurationMs = 4000
    /\ lastCall.metrics.volumeDrop <= 60
    /\ ReportedKind = "IDEA_ABANDON"

\* C15: evaluateInterruption for a session id without a PressureState returns
\* shouldInterrupt = false with type NONE, empty text, level 1 and delay 0,
\* whatever the metrics, elapsed time, word count and draws; neither it nor
\* recordStepBack for such an id creates or changes the state of any session.
C15_UnknownSessionNoOp ==
    /\ lastCall.op = "evaluateInterruption(unknown)" =>
            /\ ~lastCall.decision.shouldInterrupt
            /\ lastCall.decision.interruptionType = "NONE"
            /\ lastCall.decision.text = NoText
            /\ lastCall.decision.pressureLevel = 1
            /\ lastCall.decision.waitBeforeMs = 0
            /\ states = lastCall.statesBefore
    /\ lastCall.op = "recordStepBack(unknown)" => states = lastCall.statesBefore
    /\ UNKNOWN_SESSION \notin DOMAIN states

\* such a call with inputs that make a known session at level 3 interrupt
C15_Witness ==
    /\ lastCall.op = "evaluateInterruption(unknown)"
    /\ lastCall.input.elapsedMs = 40000
    /\ lastCall.input.words = 40
    /\ lastCall.input.draw = 0
    /\ EngineState.currentLevel = 3
    /\ EngineState.interruptionCount = 3

\* the events of the frame loop, their place within a frame, and the timestamp
\* of the frame that produced event e
FrameEvents == {"sim:metrics", "sim:step_back", "sim:ai_interrupt"}
PlaceInFrame(e) ==
    CASE e.event = "sim:metrics" -> 0
      [] e.event = "sim:step_back" -> 1
      [] e.event = "sim:ai_interrupt" -> 2
ProducedBy(e) == IF e.event = "sim:ai_interrupt" THEN e.producedAt ELSE e.data.timestamp

\* C16: the metrics, step-back and interrupt events of a session reach the
\* client in the order they were produced: those of a frame before those of
\* any later frame, and within a frame the metrics, then the step-back, then
\* the interruption, under every interleaving of frame handlers, pending store
\* writes and delayed emissions.
C16_DeliveredInOrder ==
    \A i, j \in 1..Len(emitted) :
        (/\ i < j
         /\ emitted[i].event \in FrameEvents
         /\ emitted[j].event \in FrameEvents
         /\ emitted[i].session = emitted[j].session)
        => \/ ProducedBy(emitted[i]) < ProducedBy(emitted[j])
           \/ /\ ProducedBy(emitted[i]) = ProducedBy(emitted[j])
              /\ PlaceInFrame(emitted[i]) < PlaceInFrame(emitted[j])

\* the data of the sim:tick broadcasts made for session s so far, in order
TickBroadcasts(s) ==
    LET IsTick(e) == e.event = "sim:tick" /\ e.session = s
        ticks == SelectSeq(countdownEmitted, IsTick)
    IN [i \in 1..Len(ticks) |-> ticks[i].data]

\* the broadcasts due in the first n clock ticks of a countdown of D seconds
DueBroadcasts(D, n) ==
    LET IsDue(d) == d.remaining % 5 = 0
    IN SelectSeq([t \in 1..n |-> [remaining |-> D - t, elapsed |-> t]], IsDue)

\* the completion writes of session s that are under way or done
CompletionWrites(s) ==
    LET IsWrite(item) == item.kind = "update" /\ item.where = s
        under == SelectSeq(pending, IsWrite)
    IN [i \in 1..Len(under) |-> under[i].data] \o db[s].updates

\* the sessions whose handleStart has run to its end
StartedSessions ==
    {s \in DOMAIN db : \A i \in 1..Len(pending) :
                            pending[i].kind = "create" => pending[i].session # s}

\* C17: a session of D seconds that the client never ends broadcasts a tick on
\* exactly the clock ticks at which remaining is a multiple of 5 (2 broadcasts
\* for D = 10), each with remaining + elapsed = D; it is ended automatically,
\* once and with reason TIMEOUT, when remaining reaches 0 and not before D clock
\* ticks, and no tick or sim:ended follows.
C17_Countdown ==
    \A s \in StartedSessions :
        LET D == db[s].durationSec
            running == s \in DOMAIN timers
            n == IF running THEN D - timers[s].remaining ELSE D
            ticks == TickBroadcasts(s)
            writes == CompletionWrites(s)
        IN /\ ticks = DueBroadcasts(D, n)
           /\ \A i \in 1..Len(ticks) : ticks[i].remaining + ticks[i].elapsed = D
           /\ (D = 10 /\ ~running) => Len(ticks) = 2
           /\ running => /\ n < D
                          /\ writes = <<>>
                          /\ EndedEmissions(s) = 0
           /\ ~running => /\ Len(writes) = 1
                           /\ writes[1].endReason = "TIMEOUT"
                           /\ EndedEmissions(s) = Len(db[s].updates)

\* C18: every started session is ended in the end: once no countdown is
\* scheduled and no store call or timeout is outstanding (the clock has nothing
\* left to do), no started session is still active, whatever start requests
\* and frames arrived on its connection.
C18_EveryoneEnded ==
    (timers = <<>> /\ pending = <<>>) =>
        \A s \in DOMAIN db : db[s].status = "COMPLETED"

\* C19: a voice frame that arrives while the connection has no active session
\* (none started yet, or the session has ended) changes nothing towards the
\* client: no event is emitted for it and no emission is scheduled.
C19_InactiveFrameNoOp ==
    [][ (requests'.frames # requests.frames /\ client.sessionId \notin DOMAIN states)
        => (emitted' = emitted /\ pending' = pending) ]_vars

\* the number of frames processed for session s: each emits one sim:metrics
FramesProcessed(s) ==
    Cardinality({i \in 1..Len(emitted) :
                    emitted[i].event = "sim:metrics" /\ emitted[i].session = s})

\* C20: the persisted record and the sim:ended summary of a session hold only
\* what the session produced (no more transcript entries, step-back events or
\* interruptions than frames were processed for it), and the words counter of
\* a session starts at 0, also for a later session of a connection.
C20_NoCrossSession ==
    /\ \A s \in DOMAIN db :
            /\ \A i \in 1..Len(CompletionWrites(s)) :
                  LET w == CompletionWrites(s)[i]
                  IN /\ Len(w.transcript) <= FramesProcessed(s)
                     /\ Len(w.stepBackEvents) <= FramesProcessed(s)
                     /\ Len(w.aiInterventions) <= FramesProcessed(s)
            /\ \A i \in 1..Len(emitted) :
                  (emitted[i].event = "sim:ended" /\ emitted[i].session = s)
                  => emitted[i].data.totalStepBacks <= FramesProcessed(s)
    /\ (client.sessionId # NoSession /\ FramesProcessed(client.sessionId) = 0)
            => client.wordsSinceLastInterrupt = 0

\* C21: step-back detection needs a previous snapshot of the same session: the
\* frame that is the first one processed for a session produces no step-back
\* event (nothing is appended to the step-back log by it).
C21_FirstFrameNoStepBack ==
    [][ (/\ requests'.frames # requests.frames
         /\ client.sessionId # NoSession
         /\ FramesProcessed(client.sessionId) = 0)
        => client'.stepBackEvents = client.stepBackEvents ]_vars

\* the frames of the analyzer's session, and whether the last call calibrated
VoiceFrames == sessionFrames[VOICE_SESSION]
Calibrated == Detected /\ ~lastCall.hadBaseline /\ VOICE_SESSION \in DOMAIN baselines

\* the sums and the count of the frames of q stamped within the baseline period
BaselineOf(q) ==
    LET Early(f) == f.timestamp <= 30000
        early == SelectSeq(q, Early)
    IN [sumPitch |-> SeqSum([i \in 1..Len(early) |-> early[i].pitchHz]),
        sumVolume |-> SeqSum([i \in 1..Len(early) |-> early[i].rmsVolume]),
        sumRate |-> SeqSum([i \in 1..Len(early) |-> early[i].speechRate]),
        count |-> Len(early)]

\* C22 as stated: processFrame calibrates on a frame exactly when no baseline
\* exists yet, the frame's timestamp is > 30000 and at least 10 frames are in
\* the window, that frame counted; the baseline is the mean pitch, volume and
\* rate of the frames with timestamp <= 30000.
C22_CalibratesFromTenFrames ==
    Detected =>
        /\ Calibrated <=> (/\ ~lastCall.hadBaseline
                           /\ lastCall.frame.timestamp > 30000
                           /\ Len(VoiceFrames) >= 10)
        /\ Calibrated => baselines[VOICE_SESSION] = BaselineOf(VoiceFrames)

\* C23: a malformed voice frame is dropped: handling it appends nothing to a
\* frame window, emits no metrics, step-back or interrupt event and schedules
\* none, and leaves the baselines, the pressure states and the connection's
\* accumulators (previous snapshot included) as they were, so that the snapshots
\* of later frames are what they would be had it never arrived.
C23_MalformedFrameDropped ==
    [][ (lastCall'.op = "malformedFrame" /\ lastCall' # lastCall)
        => /\ sessionFrames' = sessionFrames
           /\ baselines' = baselines
           /\ states' = states
           /\ client' = client
           /\ emitted' = emitted
           /\ pending' = pending
           /\ agentLogs' = agentLogs ]_vars

\* the sessions a step issues a final write for: handleEnd appends the write to
\* the outstanding store calls
WritesIssued ==
    {pending'[i].where : i \in {j \in (Len(pending) + 1)..Len(pending') :
                                    pending'[j].kind = "update"}}

\* the clock, the Analyzer window and baseline and the PressureState of session s
HasResources(s, tm, frs, bls, sts) ==
    s \in DOMAIN tm \cup DOMAIN frs \cup DOMAIN bls \cup DOMAIN sts

\* C24: the in-memory finalization does not depend on the final write: the step
\* that issues the write has already stopped the session's clock and discarded
\* its window, baseline and PressureState, and a write that fails brings none of
\* them back.
C24_FinalizedBeforeWrite ==
    [][ /\ \A s \in WritesIssued : ~HasResources(s, timers', sessionFrames', baselines', states')
        /\ (lastCall'.op = "updateFailed" /\ lastCall' # lastCall)
           => /\ ~HasResources(lastCall'.where, timers, sessionFrames, baselines, states)
                 => ~HasResources(lastCall'.where, timers', sessionFrames', baselines', states') ]_vars

\* the final write of a session failed and none of its resources is alive
C24_Witness ==
    /\ lastCall.op = "updateFailed"
    /\ db[lastCall.where].updates = <<>>
    /\ Len(sessionFrames) = 0 /\ DOMAIN timers = {} /\ DOMAIN states = {}
    /\ requests.frames > 0

\* the pressure levels of the time-pressure statements made for session s, in order
TimePressureLevels(s) ==
    LET IsSpeak(e) == e.event = "sim:ai_speak" /\ e.session = s
        spoken == SelectSeq(countdownEmitted, IsSpeak)
    IN [i \in 1..Len(spoken) |-> spoken[i].data.pressureLevel]

\* C25: within a session the time-pressure statements come at most once each
\* and in order of increasing severity: the levels of the statements made so
\* far are strictly increasing (3, then 4, then 5), for every duration.
C25_IncreasingSeverity ==
    \A s \in DOMAIN db :
        LET levels == TimePressureLevels(s)
        IN \A i, j \in 1..Len(levels) : i < j => levels[i] < levels[j]

\* q is an initial part of r
IsPrefix(q, r) == Len(q) <= Len(r) /\ \A i \in 1..Len(q) : q[i] = r[i]

\* C26: the step-back event log is append-only (every step leaves the entries
\* it had unchanged and in place) and the timestamps of its events are
\* non-decreasing in log order, for every sequence of frames received.
C26_AppendOnlyOrderedLog ==
    [][ client.connection = "connected"
        => /\ IsPrefix(client.stepBackEvents, client'.stepBackEvents)
           /\ \A i, j \in 1..Len(client'.stepBackEvents) :
                  i < j => client'.stepBackEvents[i].timestamp
                              <= client'.stepBackEvents[j].timestamp ]_vars

\* the snapshot computed for the latest frame processed for session s
LatestSnapshot(s) ==
    LET IsMetrics(e) == e.event = "sim:metrics" /\ e.session = s
        sent == SelectSeq(emitted, IsMetrics)
    IN sent[Len(sent)].data

\* C28: the previous snapshot passed to detectStepBack for frame k+1 is the
\* snapshot computed for frame k: when a frame of a session arrives that has
\* had frames processed, the retained previous snapshot is the latest snapshot
\* computed for the session, also while an audit write is outstanding.
C28_PreviousIsLatest ==
    [][ (/\ requests'.frames # requests.frames
         /\ client.sessionId # NoSession
         /\ FramesProcessed(client.sessionId) > 0)
        => client.previousMetrics = LatestSnapshot(client.sessionId) ]_vars

\* 12 frames spread over 31 seconds with volume 0.8 were processed, and now a
\* 13th with volume 0.2 at 40000 ms
SpreadScenario ==
    /\ Detected
    /\ Len(VoiceFrames) = 13
    /\ \A k \in 1..12 : /\ VoiceFrames[k].timestamp = SpreadStamp(k)
                         /\ VoiceFrames[k].rmsVolume = 8
    /\ VoiceFrames[13].timestamp = 40000
    /\ VoiceFrames[13].rmsVolume = 2

\* toneDrop from the pitch values alone: 3 times the decline, in percent, of the
\* window's mean pitch against the mean pitch of the frames of the first 30
\* seconds, within 0..100 and rounded; 0 while no baseline is calibrated
ToneDropOfPitch ==
    LET recent == LastN(VoiceFrames, 10)
        n == Len(recent)
        windowPitch == SeqSum([i \in 1..n |-> recent[i].pitchHz])
        base == BaselineOf(VoiceFrames)
    IN IF VOICE_SESSION \in DOMAIN baselines /\ base.sumPitch > 0
       THEN Clamp(0, 100, RoundDiv(300 * (base.sumPitch * n - windowPitch * base.count),
                                   base.sumPitch * n))
       ELSE 0

\* C27: in the scenario above the 13th snapshot has volumeDrop > 0; and the
\* toneDrop of every snapshot is determined by the frames' pitch values (those of
\* the window and those of the baseline frames) alone, whatever the volumes are.
C27_VolumeAndTone ==
    /\ SpreadScenario => lastCall.metrics.volumeDrop > 0
    /\ Detected => lastCall.metrics.toneDrop = ToneDropOfPitch

\* the scenario, with a 13th frame that is lower in pitch as well
C27_Witness ==
    /\ SpreadScenario
    /\ lastCall.metrics.volumeDrop = 23
    /\ lastCall.metrics.toneDrop = 15

\* C29: a started session that has not been ended, on a connection that is
\* open, has one Analyzer window and one PressureState; a session that has been
\* ended (its final write was issued) has no window, no baseline and no
\* PressureState, whatever arrived on the connection since.
C29_OneStateWhileActive ==
    \A s \in StartedSessions :
        LET ended == CompletionWrites(s) # <<>>
        IN /\ (~ended /\ client.connection = "connected")
                => (s \in DOMAIN sessionFrames /\ s \in DOMAIN states)
           /\ ended => ~HasResources(s, <<>>, sessionFrames, baselines, states)

\* the sessions whose countdown reaches 0 in a step: each speaks TIME_UP
TimedOut ==
    {countdownEmitted'[i].session :
        i \in {j \in (Len(countdownEmitted) + 1)..Len(countdownEmitted') :
                  /\ countdownEmitted'[j].event = "sim:ai_speak"
                  /\ countdownEmitted'[j].data.type = "TIME_UP"}}

\* the sessions whose final row a step writes
RowsWritten == {s \in DOMAIN db : db'[s].updates # db[s].updates}

\* C30: the session finalized when a countdown reaches 0 is the one the
\* countdown was started for (the final writes a clock tick issues are for the
\* sessions that timed out in it), and the sim:ended that follows a final write
\* reports the session written.
C30_CountdownEndsItsOwn ==
    [][ /\ countdownEmitted' # countdownEmitted => WritesIssued = TimedOut
        /\ \A s \in RowsWritten :
              /\ Len(emitted') = Len(emitted) + 1
              /\ emitted'[Len(emitted')].event = "sim:ended"
              /\ emitted'[Len(emitted')].data.sessionId = s ]_vars

\* the number of sim:step_back events pushed to the client so far
StepBacksPushed ==
    Cardinality({i \in 1..Len(emitted) : emitted[i].event = "sim:step_back"})

\* C31: every step-back event that was logged is also pushed to the client, and
\* the frame's pipeline runs to its end, whether or not the audit write
\* succeeds: once no audit write is outstanding, as many sim:step_back events
\* were pushed as the log has entries, and the retained previous snapshot is the
\* latest snapshot computed.
C31_StepBackAlwaysPushed ==
    (\A i \in 1..Len(pending) : pending[i].kind # "agentLog")
        => /\ StepBacksPushed = Len(client.stepBackEvents)
           /\ (client.sessionId # NoSession /\ FramesProcessed(client.sessionId) > 0)
                => client.previousMetrics = LatestSnapshot(client.sessionId)

\* C35: an evaluateInterruption call that does not interrupt leaves the
\* PressureState as it was (level, counters, lastInterruptionAt, escalation
\* triggers) and reports the current level with type NONE, empty text, delay 0.
C35_NoInterruptNoChange ==
    (Evaluated /\ ~lastCall.decision.shouldInterrupt)
        => /\ EngineState = lastCall.before
           /\ lastCall.decision.pressureLevel = lastCall.before.currentLevel
           /\ lastCall.decision.interruptionType = "NONE"
           /\ lastCall.decision.text = NoText
           /\ lastCall.decision.waitBeforeMs = 0

\* a call above level 1 that passes the timing and word rules and loses the draw
C35_Witness ==
    /\ Evaluated
    /\ ~lastCall.decision.shouldInterrupt
    /\ lastCall.before.currentLevel > 1
    /\ lastCall.before.interruptionCount > 0
    /\ TimingAllows(lastCall.before, lastCall.elapsedMs)
    /\ WordsAllow(lastCall.before, lastCall.words)

\* C36: the pressureLevel of an interrupting decision is the level from whose
\* template pool its text was drawn.
C36_TextOfReportedLevel ==
    Interrupted => lastCall.decision.text[1] = lastCall.decision.pressureLevel

\* C38: when the timing and word rules hold, the call interrupts exactly when
\* the draw is under the probability: a draw at or above it does not interrupt,
\* and with a probability of 1 or more every eligible call interrupts.
C38_DrawUnderProbability ==
    (/\ Evaluated
     /\ TimingAllows(lastCall.before, lastCall.elapsedMs)
     /\ WordsAllow(lastCall.before, lastCall.words))
        => (lastCall.decision.shouldInterrupt
              <=> lastCall.rnd.draw
                    < Probability(lastCall.before.currentLevel, lastCall.confidenceScore))

\* C39 as stated: the delay of an interrupting decision is 0 for the 70% of the
\* draws under 0.7 and within 0..2000 for every draw.
C39_AsStated ==
    Interrupted
        => /\ lastCall.rnd.imm < 700 => lastCall.decision.waitBeforeMs = 0
           /\ lastCall.decision.waitBeforeMs \in 0..2000

\* C39: the delay of an interrupting decision is 0 for the 30% of the draws
\* under 0.3 and otherwise a value of at most 2000 ms; it is never negative and
\* never exceeds 2000 ms.
C39_DelayRange ==
    Interrupted
        => /\ lastCall.rnd.imm < 300 => lastCall.decision.waitBeforeMs = 0
           /\ lastCall.decision.waitBeforeMs \in 0..2000

\* an immediate decision by the draw, and a decision delayed by nearly 2000 ms
C39_Witness ==
    /\ Interrupted
    /\ lastCall.rnd.imm = 299
    /\ lastCall.rnd.delay = 999
    /\ lastCall.decision.waitBeforeMs = 0

\* C37: while the session has no baseline, a snapshot has toneDrop = 0,
\* volumeDrop = 0 and ideaAbandonment = false, and no IDEA_ABANDON, VOLUME_DROP
\* or TONE_DROP step-back is reported.
C37_NothingBeforeBaseline ==
    (Detected /\ VOICE_SESSION \notin DOMAIN baselines)
        => /\ lastCall.metrics.toneDrop = 0
           /\ lastCall.metrics.volumeDrop = 0
           /\ ~lastCall.metrics.ideaAbandonment
           /\ ReportedKind \notin {"IDEA_ABANDON", "VOLUME_DROP", "TONE_DROP"}

\* before the baseline, after ten frames at volume 0.8 and pitch 200, a frame
\* of volume 0.2 and pitch 100 that trails off
C37_Witness ==
    /\ Detected
    /\ VOICE_SESSION \notin DOMAIN baselines
    /\ Len(VoiceFrames) = 11
    /\ lastCall.frame.rmsVolume = 2
    /\ lastCall.frame.pitchHz = 100
    /\ lastCall.frame.pauseDurationMs > 3000
    /\ lastCall.frame.wordCount < 3
    /\ lastCall.metrics.volumeDrop = 0

\* the data of the sim:ended events emitted for session s so far
EndedSummaries(s) ==
    LET IsEnded(e) == e.event = "sim:ended" /\ e.session = s
        ended == SelectSeq(emitted, IsEnded)
    IN [i \in 1..Len(ended) |-> ended[i].data]

\* C33: the final PressureState of every completion write is the state the
\* engine held at the end, never absent, and counts the interruptions that
\* fired in the session; every sim:ended reports that count.
C33_TerminalStatePersisted ==
    \A s \in DOMAIN db :
        /\ \A i \in 1..Len(CompletionWrites(s)) :
              LET w == CompletionWrites(s)[i]
              IN /\ w.pressureFinalState # Undefined
                 /\ w.pressureFinalState.interruptionCount = Len(w.aiInterventions)
        /\ \A i \in 1..Len(EndedSummaries(s)) :
              EndedSummaries(s)[i].totalInterruptions = Len(client.aiInterventions)

\* the number of interrupting decisions returned for the sessions in S so far:
\* each is either delivered as sim:ai_interrupt or waiting for its delay to pass
Decisions(S, em, pend) ==
    Cardinality({i \in 1..Len(em) : em[i].event = "sim:ai_interrupt" /\ em[i].session \in S})
        + Cardinality({i \in 1..Len(pend) : pend[i].kind = "timeout" /\ pend[i].session \in S})

\* C34: after every step, for every session the engine holds a state for,
\* interruptionCount = challengeCount = the number of interrupting decisions
\* returned for it; every decision appended one entry to the interruption log
\* (the log has as many entries as decisions were returned on the connection);
\* and the word counter is 0 right after a step that made an interrupting decision.
C34_CountsAgree ==
    [][ /\ \A s \in DOMAIN states' :
              /\ states'[s].interruptionCount = states'[s].challengeCount
              /\ states'[s].interruptionCount = Decisions({s}, emitted', pending')
        /\ Len(client'.aiInterventions) = Decisions(DOMAIN db', emitted', pending')
        /\ Len(client'.aiInterventions) # Len(client.aiInterventions)
              => client'.wordsSinceLastInterrupt = 0 ]_vars

\* two interruptions were decided in a session that is still active, the
\* second one a moment ago
C34_Witness ==
    /\ client.sessionId \in DOMAIN states
    /\ states[client.sessionId].interruptionCount = 2
    /\ Len(client.aiInterventions) = 2
    /\ client.wordsSinceLastInterrupt = 0
    /\ Len(client.fullTranscript) = 2

\* the highest level a session reached, read from the state it ended with: 1,
\* or the highest level an escalation trigger names
MaxLevelReached(ps) ==
    LET raised == {ps.escalationTriggers[i][2] :
                      i \in {j \in 1..Len(ps.escalationTriggers) :
                                ps.escalationTriggers[j][1] \in {"interruptions", "confident"}}}
    IN CHOOSE l \in raised \cup {1} : \A k \in raised \cup {1} : k <= l

\* C32: the maxPressureLevel of the sim:ended of a session is the highest level
\* the session reached, also when step-back relief lowered the level before the
\* end (stated for the first end of a session, whose final state is persisted
\* by the first completion write).
C32_MaxLevelReported ==
    \A s \in DOMAIN db :
        (Len(db[s].updates) >= 1 /\ Len(EndedSummaries(s)) >= 1
            /\ db[s].updates[1].pressureFinalState # Undefined)
        => EndedSummaries(s)[1].maxPressureLevel
              = MaxLevelReached(db[s].updates[1].pressureFinalState)

====
